---- MODULE Spec2Model ----
(***************************************************************************)
(* The request handlers of the chat / invoice web application as a state    *)
(* machine over its database tables.  One request slot runs one handler     *)
(* invocation; a handler advances one step per awaited call, so the         *)
(* interleavings of the model are those of the awaits of the code.  Strings *)
(* are sequences of UTF-16 code units (one-character strings; a unit        *)
(* outside ASCII is written <XXXX>), as JavaScript indexes them.            *)
(***************************************************************************)
EXTENDS Integers, Sequences, FiniteSets, TLC

VARIABLES
    users,      \* table User: set of rows [id, email, passwordHash]
    chats,      \* table ChatSession: set of rows [id, userId, title]
    messages,   \* table Message in creation order: rows [id, chatId, role, content]
    invoices,   \* table Invoice in creation order
    accounts,   \* table Account: set of rows (OAuth tokens)
    searches,   \* table InvoiceSearch in creation order
    req,        \* request slot -> the handler invocation running in it
    nextId,     \* source of fresh row ids (cuid())
    env         \* what lies outside the handlers: the files on disk

vars == <<users, chats, messages, invoices, accounts, searches, req, nextId, env>>

(***************************************************************************)
(* Bounds of the model.                                                     *)
(***************************************************************************)
\* request slots: each runs one handler invocation, all of them concurrently
MaxReq == 1

\* the requests a behaviour holds: the slots of req
Req == DOMAIN req

Null == "null"

\* an optional value: None for null / undefined, Some(x) otherwise
None == {}
Some(x) == {x}
The(o) == CHOOSE x \in o : TRUE

(***************************************************************************)
(* Strings.                                                                 *)
(***************************************************************************)
UpperCase == <<"A","B","C","D","E","F","G","H","I","J","K","L","M",
               "N","O","P","Q","R","S","T","U","V","W","X","Y","Z">>
LowerCase == <<"a","b","c","d","e","f","g","h","i","j","k","l","m",
               "n","o","p","q","r","s","t","u","v","w","x","y","z">>

\* String.prototype.toLowerCase
toLowerCase(s) ==
    [i \in 1..Len(s) |->
        IF \E k \in 1..26 : UpperCase[k] = s[i]
        THEN LowerCase[CHOOSE k \in 1..26 : UpperCase[k] = s[i]]
        ELSE s[i]]

\* String.prototype.includes
includes(s, sub) ==
    \E i \in 0..(Len(s) - Len(sub)) : SubSeq(s, i + 1, i + Len(sub)) = sub

\* String.prototype.slice(0, n)
slice0(s, n) == SubSeq(s, 1, IF Len(s) < n THEN Len(s) ELSE n)

\* route.ts:75-80, the keyword list of isInvoiceQuery
invoiceKeywords ==
    << <<"i","n","v","o","i","c","e">>,
       <<"b","i","l","l">>,
       <<"r","e","c","e","i","p","t">>,
       <<"p","a","y","m","e","n","t">>,
       <<"v","e","n","d","o","r">>,
       <<"s","u","p","p","l","i","e","r">>,
       <<"s","p","e","n","d">>,
       <<"e","x","p","e","n","s","e">>,
       <<"a","m","o","u","n","t">>,
       <<"t","o","t","a","l">>,
       <<"c","o","s","t">>,
       <<"p","r","i","c","e">>,
       <<"p","u","r","c","h","a","s","e">>,
       <<"t","r","a","n","s","a","c","t","i","o","n">>,
       <<"i","n","t","e","r","g","l","o","b","e">>,
       <<"i","n","d","i","g","o">>,
       <<"a","i","r","l","i","n","e","s">>,
       <<"t","r","a","v","e","l">>,
       <<"f","l","i","g","h","t">>,
       <<"p","n","r">>,
       <<"b","o","o","k","i","n","g">> >>

\* the fixed texts of the chat handler, each under the route.ts line that holds it;
\* of a templated answer the text is its fixed heading
Texts ==
    [
      \* route.ts:53
      NewChatTitle |->
        <<"N","e","w"," ","c","h","a","t">>,
      \* route.ts:537
      HelloText |->
        <<"H","e","l","l","o","!"," ","I","'","m"," ","y","o","u","r"," ","A","I"," ","a","s","s",
          "i","s","t","a","n","t","."," ","H","o","w"," ","c","a","n"," ","I"," ","h","e","l","p",
          " ","y","o","u"," ","t","o","d","a","y","?">>,
      \* route.ts:539
      HowAreYouText |->
        <<"I","'","m"," ","d","o","i","n","g"," ","g","r","e","a","t",","," ","t","h","a","n","k",
          " ","y","o","u"," ","f","o","r"," ","a","s","k","i","n","g","!"," ","I","'","m"," ","h",
          "e","r","e"," ","a","n","d"," ","r","e","a","d","y"," ","t","o"," ","a","s","s","i","s",
          "t"," ","y","o","u"," ","w","i","t","h"," ","a","n","y","t","h","i","n","g"," ","y","o",
          "u"," ","n","e","e","d",".">>,
      \* route.ts:541
      WhatCanYouDoText |->
        <<"I"," ","c","a","n"," ","h","e","l","p"," ","y","o","u"," ","w","i","t","h"," ","a"," ",
          "w","i","d","e"," ","v","a","r","i","e","t","y"," ","o","f"," ","t","a","s","k","s","!",
          " ","I"," ","c","a","n"," ","a","n","s","w","e","r"," ","q","u","e","s","t","i","o","n",
          "s"," ","a","b","o","u","t"," ","y","o","u","r"," ","i","n","v","o","i","c","e","s",",",
          " ","p","r","o","v","i","d","e"," ","i","n","f","o","r","m","a","t","i","o","n",","," ",
          "h","e","l","p"," ","w","i","t","h"," ","c","o","d","i","n","g",","," ","e","x","p","l",
          "a","i","n"," ","c","o","n","c","e","p","t","s",","," ","a","n","d"," ","m","u","c","h",
          " ","m","o","r","e","."," ","W","h","a","t"," ","w","o","u","l","d"," ","y","o","u"," ",
          "l","i","k","e"," ","t","o"," ","k","n","o","w"," ","a","b","o","u","t","?">>,
      \* route.ts:543
      JokeText |->
        <<"W","h","y"," ","d","o","n","'","t"," ","s","c","i","e","n","t","i","s","t","s"," ","t",
          "r","u","s","t"," ","a","t","o","m","s","?"," ","B","e","c","a","u","s","e"," ","t","h",
          "e","y"," ","m","a","k","e"," ","u","p"," ","e","v","e","r","y","t","h","i","n","g","!",
          " ","<D83D>","<DE04>">>,
      \* route.ts:545
      WeatherText |->
        <<"I"," ","d","o","n","'","t"," ","h","a","v","e"," ","a","c","c","e","s","s"," ","t","o",
          " ","r","e","a","l","-","t","i","m","e"," ","w","e","a","t","h","e","r"," ","d","a","t",
          "a",","," ","b","u","t"," ","I"," ","c","a","n"," ","s","u","g","g","e","s","t"," ","c",
          "h","e","c","k","i","n","g"," ","a"," ","w","e","a","t","h","e","r"," ","a","p","p"," ",
          "o","r"," ","w","e","b","s","i","t","e"," ","f","o","r"," ","t","h","e"," ","m","o","s",
          "t"," ","c","u","r","r","e","n","t"," ","i","n","f","o","r","m","a","t","i","o","n"," ",
          "i","n"," ","y","o","u","r"," ","a","r","e","a",".">>,
      \* route.ts:547
      CodeText |->
        <<"I","'","d"," ","b","e"," ","h","a","p","p","y"," ","t","o"," ","h","e","l","p"," ","y",
          "o","u"," ","w","i","t","h"," ","p","r","o","g","r","a","m","m","i","n","g","!"," ","I",
          " ","c","a","n"," ","a","s","s","i","s","t"," ","w","i","t","h"," ","v","a","r","i","o",
          "u","s"," ","l","a","n","g","u","a","g","e","s"," ","l","i","k","e"," ","J","a","v","a",
          "S","c","r","i","p","t",","," ","P","y","t","h","o","n",","," ","R","e","a","c","t",",",
          " ","a","n","d"," ","m","o","r","e","."," ","W","h","a","t"," ","s","p","e","c","i","f",
          "i","c"," ","c","o","d","i","n","g"," ","t","a","s","k"," ","a","r","e"," ","y","o","u",
          " ","w","o","r","k","i","n","g"," ","o","n","?">>,
      \* route.ts:549
      TimeText |->
        <<"I"," ","d","o","n","'","t"," ","h","a","v","e"," ","a","c","c","e","s","s"," ","t","o",
          " ","t","h","e"," ","c","u","r","r","e","n","t"," ","t","i","m","e",","," ","b","u","t",
          " ","y","o","u"," ","c","a","n"," ","c","h","e","c","k"," ","y","o","u","r"," ","d","e",
          "v","i","c","e","'","s"," ","c","l","o","c","k"," ","o","r"," ","u","s","e"," ","a"," ",
          "t","i","m","e"," ","w","e","b","s","i","t","e"," ","f","o","r"," ","t","h","e"," ","m",
          "o","s","t"," ","a","c","c","u","r","a","t","e"," ","i","n","f","o","r","m","a","t","i",
          "o","n",".">>,
      \* route.ts:551
      DefaultText |->
        <<"T","h","a","t","'","s"," ","a","n"," ","i","n","t","e","r","e","s","t","i","n","g"," ",
          "q","u","e","s","t","i","o","n","!"," ","W","h","i","l","e"," ","I"," ","d","o","n","'",
          "t"," ","h","a","v","e"," ","s","p","e","c","i","f","i","c"," ","i","n","f","o","r","m",
          "a","t","i","o","n"," ","a","b","o","u","t"," ","t","h","a","t"," ","t","o","p","i","c",
          " ","r","i","g","h","t"," ","n","o","w",","," ","I","'","d"," ","b","e"," ","h","a","p",
          "p","y"," ","t","o"," ","h","e","l","p"," ","y","o","u"," ","e","x","p","l","o","r","e",
          " ","r","e","l","a","t","e","d"," ","c","o","n","c","e","p","t","s"," ","o","r"," ","a",
          "n","s","w","e","r"," ","a","n","y"," ","o","t","h","e","r"," ","q","u","e","s","t","i",
          "o","n","s"," ","y","o","u"," ","m","i","g","h","t"," ","h","a","v","e","."," ","W","h",
          "a","t"," ","e","l","s","e"," ","w","o","u","l","d"," ","y","o","u"," ","l","i","k","e",
          " ","t","o"," ","k","n","o","w","?">>,
      \* route.ts:396
      NoAccountText |->
        <<"I"," ","c","o","u","l","d","n","'","t"," ","f","i","n","d"," ","y","o","u","r"," ","u",
          "s","e","r"," ","a","c","c","o","u","n","t","."," ","P","l","e","a","s","e"," ","t","r",
          "y"," ","s","i","g","n","i","n","g"," ","i","n"," ","a","g","a","i","n",".">>,
      \* route.ts:432
      NoInvoicesText |->
        <<"Y","o","u"," ","d","o","n","'","t"," ","h","a","v","e"," ","a","n","y"," ","p","r","o",
          "c","e","s","s","e","d"," ","i","n","v","o","i","c","e","s"," ","y","e","t","."," ","T",
          "r","y"," ","u","p","l","o","a","d","i","n","g"," ","s","o","m","e"," ","i","n","v","o",
          "i","c","e","s"," ","f","i","r","s","t","!">>,
      \* route.ts:519
      NoMatchText |->
        <<"I"," ","c","o","u","l","d","n","'","t"," ","f","i","n","d"," ","a","n","y"," ","i","n",
          "v","o","i","c","e","s"," ","m","a","t","c","h","i","n","g"," ","y","o","u","r"," ","q",
          "u","e","r","y","."," ","T","r","y"," ","u","p","l","o","a","d","i","n","g"," ","s","o",
          "m","e"," ","i","n","v","o","i","c","e","s"," ","f","i","r","s","t",","," ","o","r"," ",
          "c","h","e","c","k"," ","y","o","u","r"," ","d","a","s","h","b","o","a","r","d"," ","f",
          "o","r"," ","e","x","i","s","t","i","n","g"," ","i","n","v","o","i","c","e","s",".">>,
      \* route.ts:523
      TroubleText |->
        <<"I"," ","h","a","d"," ","t","r","o","u","b","l","e"," ","a","c","c","e","s","s","i","n",
          "g"," ","y","o","u","r"," ","i","n","v","o","i","c","e"," ","d","a","t","a","."," ","P",
          "l","e","a","s","e"," ","c","h","e","c","k"," ","y","o","u","r"," ","d","a","s","h","b",
          "o","a","r","d"," ","f","o","r"," ","i","n","v","o","i","c","e"," ","i","n","f","o","r",
          "m","a","t","i","o","n",".">>,
      \* route.ts:115
      NoAmountsText |->
        <<"I"," ","c","o","u","l","d","n","'","t"," ","f","i","n","d"," ","a","n","y"," ","i","n",
          "v","o","i","c","e","s"," ","w","i","t","h"," ","v","a","l","i","d"," ","a","m","o","u",
          "n","t"," ","d","a","t","a"," ","t","o"," ","a","n","a","l","y","z","e",".">>,
      \* route.ts:122
      MostExpensiveHead |->
        <<"<D83D>","<DCCA>"," ","*","*","M","o","s","t"," ","E","x","p","e","n","s","i","v","e"," ",
          "I","n","v","o","i","c","e",":","*","*">>,
      \* route.ts:134
      TotalSpendingHead |->
        <<"<D83D>","<DCCA>"," ","*","*","T","o","t","a","l"," ","S","p","e","n","d","i","n","g"," ",
          "A","n","a","l","y","s","i","s",":","*","*">>,
      \* route.ts:162
      ExpenseAnalysisHead |->
        <<"<D83D>","<DCCA>"," ","*","*","E","x","p","e","n","s","e"," ","A","n","a","l","y","s","i",
          "s",":","*","*">>,
      \* route.ts:368
      SpendingSummaryHead |->
        <<"<D83D>","<DCCA>"," ","*","*","S","p","e","n","d","i","n","g"," ","S","u","m","m","a","r",
          "y",":","*","*">>,
      \* route.ts:372
      FoundBasicHead |->
        <<"I"," ","f","o","u","n","d"," ">>,
      \* route.ts:493
      FoundRelevantHead |->
        <<"I"," ","f","o","u","n","d"," ">>
    ]

(***************************************************************************)
(* Numbers read from text.  A number is an integer count of hundredths, and *)
(* a parse yields Some(number) or None for NaN.  The texts of the model     *)
(* carry at most two decimals and no exponent, so no digit is dropped.      *)
(***************************************************************************)
DigitChars == <<"0","1","2","3","4","5","6","7","8","9">>
isDigit(c) == \E k \in 1..10 : DigitChars[k] = c
digitVal(c) == (CHOOSE k \in 1..10 : DigitChars[k] = c) - 1
isSpace(c) == c \in {" ", "\n", "\t"}

\* the length of the longest prefix of s, from position i on, made of digits
RECURSIVE digitRun(_, _)
digitRun(s, i) == IF i <= Len(s) /\ isDigit(s[i]) THEN 1 + digitRun(s, i + 1) ELSE 0

\* the value of the digit string s[i..j]
RECURSIVE digitsValue(_, _, _)
digitsValue(s, i, j) == IF j < i THEN 0 ELSE 10 * digitsValue(s, i, j - 1) + digitVal(s[j])

RECURSIVE skipSpace(_, _)
skipSpace(s, i) == IF i <= Len(s) /\ isSpace(s[i]) THEN skipSpace(s, i + 1) ELSE i

\* parseFloat: leading white space, a sign, digits, a point and digits; whatever
\* follows is ignored; NaN when there is no digit
parseFloat(s) ==
    LET a == skipSpace(s, 1)
        neg == a <= Len(s) /\ s[a] = "-"
        b == IF a <= Len(s) /\ s[a] \in {"-", "+"} THEN a + 1 ELSE a
        n == digitRun(s, b)
        hasPoint == b + n <= Len(s) /\ s[b + n] = "."
        m == IF hasPoint THEN digitRun(s, b + n + 1) ELSE 0
        whole == digitsValue(s, b, b + n - 1)
        d1 == IF m >= 1 THEN digitVal(s[b + n + 1]) ELSE 0
        d2 == IF m >= 2 THEN digitVal(s[b + n + 2]) ELSE 0
        mag == 100 * whole + 10 * d1 + d2
    IN  IF n = 0 /\ m = 0 THEN None ELSE IF neg THEN Some(0 - mag) ELSE Some(mag)

\* s.replace(/[...]/g, ''), the class given as the characters to drop
RECURSIVE dropChars(_, _)
dropChars(s, drop) ==
    IF s = <<>> THEN <<>>
    ELSE (IF Head(s) \in drop THEN <<>> ELSE <<Head(s)>>) \o dropChars(Tail(s), drop)

(***************************************************************************)
(* JavaScript numbers.  parseFloat and JSON.parse give the double nearest   *)
(* to the decimal they read, and + rounds the exact sum to the nearest      *)
(* double, ties to even.  A number is zero (no bits) or 1.m[2]m[3]... times *)
(* 2^e in binary: m holds the bits of the significand, the first of them 1, *)
(* and a double has 53 of them.  The amounts summed here are not negative   *)
(* and far from the ends of the exponent's range.                           *)
(***************************************************************************)
Precision == 53

Zero == [e |-> 0, m |-> <<>>]

zeros(n) == [i \in 1..n |-> 0]

\* the bits of s from its first 1 on
fromFirstOne(s) ==
    IF \A i \in 1..Len(s) : s[i] = 0 THEN <<>>
    ELSE SubSeq(s, CHOOSE i \in 1..Len(s) : s[i] = 1 /\ \A j \in 1..i - 1 : s[j] = 0, Len(s))

\* the binary digits of a natural number below 2^31
bitsOf(n) == fromFirstOne([i \in 1..31 |-> (n \div 2^(31 - i)) % 2])

\* a + b + c of two bit strings of one length and a carry: the carry out, then
\* the bits of the sum
RECURSIVE addBits(_, _, _)
addBits(a, b, c) ==
    IF Len(a) = 0 THEN <<c>>
    ELSE IF Len(a) = 1 THEN <<(a[1] + b[1] + c) \div 2, (a[1] + b[1] + c) % 2>>
    ELSE LET h == Len(a) \div 2
             low == addBits(SubSeq(a, h + 1, Len(a)), SubSeq(b, h + 1, Len(b)), c)
         IN  IF low[1] = 0
             THEN addBits(SubSeq(a, 1, h), SubSeq(b, 1, h), 0) \o Tail(low)
             ELSE addBits(SubSeq(a, 1, h), SubSeq(b, 1, h), 1) \o Tail(low)

\* the exact sum of two numbers
sum(x, y) ==
    IF x.m = <<>> THEN y ELSE IF y.m = <<>> THEN x
    ELSE LET hi == IF x.e >= y.e THEN x.e ELSE y.e
             xl == x.e - Len(x.m)
             yl == y.e - Len(y.m)
             lo == IF xl <= yl THEN xl ELSE yl
             align(z) == zeros(hi - z.e) \o z.m \o zeros(z.e - Len(z.m) - lo)
             s == addBits(align(x), align(y), 0)
         IN  IF s[1] = 1 THEN [e |-> hi + 1, m |-> s] ELSE [e |-> hi, m |-> Tail(s)]

\* the nearest double, ties to the even one
round(x) ==
    IF x.m = <<>> THEN Zero
    ELSE IF Len(x.m) <= Precision THEN [e |-> x.e, m |-> x.m \o zeros(Precision - Len(x.m))]
    ELSE LET keep == SubSeq(x.m, 1, Precision)
             sticky == \E i \in Precision + 2..Len(x.m) : x.m[i] = 1
             up == x.m[Precision + 1] = 1 /\ (sticky \/ keep[Precision] = 1)
             inc == addBits(keep, zeros(Precision), 1)
         IN  IF ~up THEN [e |-> x.e, m |-> keep]
             ELSE IF inc[1] = 1 THEN [e |-> x.e + 1, m |-> SubSeq(inc, 1, Precision)]
             ELSE [e |-> x.e, m |-> Tail(inc)]

\* a + b of two numbers
plus(x, y) == round(sum(x, y))

\* a < b
less(x, y) ==
    IF y.m = <<>> THEN FALSE
    ELSE IF x.m = <<>> THEN TRUE
    ELSE \/ x.e < y.e
         \/ /\ x.e = y.e
            /\ \E i \in 1..Precision : x.m[i] < y.m[i] /\ \A j \in 1..i - 1 : x.m[j] = y.m[j]

\* the long division by 100 of the bits d after the remainder r: the bits of
\* the quotient and the remainder left
RECURSIVE divBits(_, _)
divBits(r, d) ==
    IF Len(d) = 0 THEN [q |-> <<>>, r |-> r]
    ELSE IF Len(d) = 1
    THEN LET t == 2 * r + d[1]
         IN  IF t >= 100 THEN [q |-> <<1>>, r |-> t - 100] ELSE [q |-> <<0>>, r |-> t]
    ELSE LET h == Len(d) \div 2
             left == divBits(r, SubSeq(d, 1, h))
             right == divBits(left.r, SubSeq(d, h + 1, Len(d)))
         IN  \* the left half is divided first; its remainder is below 100
             IF left.r < 100 THEN [q |-> left.q \o right.q, r |-> right.r] ELSE left

\* the double nearest to h hundredths: h / 100 to 62 binary places, a 1 behind
\* them when a remainder is left, rounded
toDouble(h) ==
    LET d == bitsOf(h)
        res == divBits(0, d \o zeros(62))
        m == fromFirstOne(res.q)
    IN  IF h = 0 THEN Zero
        ELSE round([e |-> Len(m) - 63, m |-> m \o (IF res.r > 0 THEN <<1>> ELSE <<>>)])

(***************************************************************************)
(* JSON.  An object is the sequence of its members in insertion order, each *)
(* [k |-> key, v |-> value]; a value is a string or a number (the model's   *)
(* objects are flat).                                                       *)
(***************************************************************************)
Str(s) == [t |-> "string", v |-> s]
Num(n) == [t |-> "number", v |-> n]

hasKey(data, field) == \E i \in 1..Len(data) : data[i].k = field
get(data, field) == data[CHOOSE i \in 1..Len(data) : data[i].k = field].v

\* data[field] as JavaScript tests it: absent, "" and 0 are falsy
truthy(data, field) ==
    /\ hasKey(data, field)
    /\ get(data, field).v # (IF get(data, field).t = "string" THEN <<>> ELSE 0)

RECURSIVE decimal(_)
decimal(k) == IF k < 10 THEN <<DigitChars[k + 1]>>
              ELSE decimal(k \div 10) \o <<DigitChars[(k % 10) + 1]>>

\* Number.prototype.toString of a count of hundredths
numberText(n) ==
    LET a == IF n < 0 THEN 0 - n ELSE n
        d1 == (a \div 10) % 10
        d2 == a % 10
    IN  (IF n < 0 THEN <<"-">> ELSE <<>>) \o decimal(a \div 100)
        \o (IF d1 = 0 /\ d2 = 0 THEN <<>>
            ELSE <<".", DigitChars[d1 + 1]>> \o (IF d2 = 0 THEN <<>> ELSE <<DigitChars[d2 + 1]>>))

\* JSON.stringify of an object (the model's strings need no escape)
RECURSIVE jsonMembers(_)
jsonMembers(data) ==
    IF data = <<>> THEN <<>>
    ELSE LET m == Head(data)
             val == IF m.v.t = "string" THEN <<"\"">> \o m.v.v \o <<"\"">> ELSE numberText(m.v.v)
         IN  <<"\"">> \o m.k \o <<"\"", ":">> \o val
             \o (IF Len(data) > 1 THEN <<",">> ELSE <<>>) \o jsonMembers(Tail(data))

jsonStringify(data) == <<"{">> \o jsonMembers(data) \o <<"}">>

\* route.ts:99-101: (total_amount || amount || '0').toString(), stripped to
\* [0-9.-], parseFloat || 0
parsedAmount(data) ==
    LET val == IF truthy(data, <<"t","o","t","a","l","_","a","m","o","u","n","t">>) THEN get(data, <<"t","o","t","a","l","_","a","m","o","u","n","t">>)
               ELSE IF truthy(data, <<"a","m","o","u","n","t">>) THEN get(data, <<"a","m","o","u","n","t">>)
               ELSE Str(<<"0">>)
        amountStr == IF val.t = "string" THEN val.v ELSE numberText(val.v)
        cleanedAmount == SelectSeq(amountStr, LAMBDA c : isDigit(c) \/ c \in {".", "-"})
        amount == parseFloat(cleanedAmount)
    IN  IF amount = None THEN 0 ELSE The(amount)

(***************************************************************************)
(* Values shared by the handlers.                                           *)
(***************************************************************************)
\* src/scripts/seed.ts and part_001:36, the demo account
DemoEmail == "demo@chat.app"
DemoPassword == "demo1234"
OtherEmail == "bob@example.com"

\* the session auth() returns: no session, or the signed-in user's email and id
NoSession == [email |-> Null, id |-> None]
Sessions == {NoSession, [email |-> DemoEmail, id |-> Some(1)], [email |-> OtherEmail, id |-> Some(9)]}

\* a handler that lets every request through
SessionNotChecked(s) == FALSE

\* !session?.user?.email
Unauthorized(s) == s.email = Null

\* bcrypt.hash / bcrypt.compare
bcryptHash(pw) == <<"bcrypt", pw>>
\* bcrypt.compare taking every password for the right one
bcryptCompareAny(pw, hash) == TRUE

bcryptCompare(pw, hash) == hash = bcryptHash(pw)

\* one entry of a request's record of what it did, in order
Ev(k, what, val) == [k |-> k, what |-> what, val |-> val]

\* the outcome of one database call: it returns, or it throws
DbOutcome == {"ok", "throw"}
\* the outcome of one outbound HTTP call: a 2xx answer, another status, no answer
FetchOutcome == {"ok", "notOk", "throw"}

Idle == [ep |-> "idle", pc |-> "idle"]

\* a request inside the loop that emits its chunks
Streaming(q) ==
    /\ req[q].ep = "chat" /\ req[q].pc = "chunks"
    /\ req[q].i < Len(req[q].response)

\* The turns of the chunk loop touch nothing but the request's own stream, so
\* they commute with every step of another request: a loop that has begun is
\* run to its end before another request takes its next step.
Turn(r) == \A q \in Req \ {r} : ~Streaming(q)

\* a request is accepted into the lowest free slot
Accept(r) ==
    /\ Turn(r)
    /\ req[r] = Idle
    /\ \A q \in Req : q < r => req[q] # Idle

\* request r runs handler ep and stands at pc
At(r, ep, pc) == Turn(r) /\ req[r].ep = ep /\ req[r].pc = pc

UserByEmail(e) == {u \in users : u.email = e}

(***************************************************************************)
(* POST /api/chat: the answer to a prompt (route.ts:73-553).                *)
(***************************************************************************)
isInvoiceQuery(userPrompt) ==
    LET prompt == toLowerCase(userPrompt)
    IN  \E k \in 1..Len(invoiceKeywords) : includes(prompt, invoiceKeywords[k])

\* getHardcodedResponse below the invoice branch
cannedResponse(userPrompt) ==
    LET prompt == toLowerCase(userPrompt)
    IN  IF includes(prompt, <<"h","e","l","l","o">>) \/ includes(prompt, <<"h","i">>) THEN Texts.HelloText
        ELSE IF includes(prompt, <<"h","o","w"," ","a","r","e"," ","y","o","u">>) THEN Texts.HowAreYouText
        ELSE IF includes(prompt, <<"w","h","a","t"," ","c","a","n"," ","y","o","u"," ","d","o">>) THEN Texts.WhatCanYouDoText
        ELSE IF includes(prompt, <<"t","e","l","l"," ","m","e"," ","a"," ","j","o","k","e">>) THEN Texts.JokeText
        ELSE IF includes(prompt, <<"w","e","a","t","h","e","r">>) THEN Texts.WeatherText
        ELSE IF includes(prompt, <<"c","o","d","e">>) \/ includes(prompt, <<"p","r","o","g","r","a","m","m","i","n","g">>) THEN Texts.CodeText
        ELSE IF includes(prompt, <<"t","i","m","e">>) THEN Texts.TimeText
        ELSE Texts.DefaultText

\* the amount handleExpenseAnalysisQuery parses: total_amount || amount || '0',
\* stripped to [0-9.-] and read by parseFloat; 0 when that is NaN
hasPositiveAmount(inv) == parsedAmount(inv.extractedData) > 0

\* handleExpenseAnalysisQuery; a templated answer is its fixed heading
handleExpenseAnalysisQuery(userPrompt, invs) ==
    LET prompt == toLowerCase(userPrompt)
        invoicesWithAmounts == SelectSeq(invs, hasPositiveAmount)
    IN  IF \/ includes(prompt, <<"m","o","s","t">>) \/ includes(prompt, <<"h","i","g","h","e","s","t">>)
           \/ includes(prompt, <<"b","i","g","g","e","s","t">>) \/ includes(prompt, <<"w","h","i","c","h">>)
        THEN IF Len(invoicesWithAmounts) = 0 THEN Texts.NoAmountsText ELSE Texts.MostExpensiveHead
        ELSE IF \/ includes(prompt, <<"t","o","t","a","l">>) \/ includes(prompt, <<"s","p","e","n","d">>)
                \/ includes(prompt, <<"s","u","m">>)
        THEN Texts.TotalSpendingHead
        ELSE Texts.ExpenseAnalysisHead

\* formatBasicInvoiceResponse: it reads invoice.extracted_data || invoice.data,
\* fields a database row does not have, so every amount it parses is 0 and no
\* invoice is ever the most expensive one
formatBasicInvoiceResponse(userPrompt, invs) ==
    LET prompt == toLowerCase(userPrompt)
    IN  IF includes(prompt, <<"t","o","t","a","l">>) \/ includes(prompt, <<"s","p","e","n","d">>)
        THEN Texts.SpendingSummaryHead
        ELSE Texts.FoundBasicHead
(***************************************************************************)
(* The database schema (Prisma), which is not among the source files.       *)
(* Message.chatId references ChatSession.id, and a session that messages     *)
(* reference cannot be deleted (the default of a required relation);        *)
(* User.email is unique.                                                    *)
(***************************************************************************)
\* a Message row may be inserted only for a session that exists
MessageFkHolds(chatId) == \E c \in chats : c.id = chatId

\* a ChatSession row may be deleted only when no message references it
SessionFkHolds(chatId) == \A i \in 1..Len(messages) : messages[i].chatId # chatId

\* a User row may be inserted only when its email is free
EmailFree(e) == UserByEmail(e) = {}

(***************************************************************************)
(* POST /api/chat (route.ts:7-634).                                         *)
(***************************************************************************)
\* the prompts requests carry: the second is longer than a title
Prompts ==
    { <<"h","i">>,
      <<"h","i",","," ","w","h","i","c","h"," ","i","n","v","o","i","c","e"," ","h","a","s"," ","t","h","e"," ","m","o","s","t"," ","e","x","p","e","n","s","e","?">> }

\* the answers the completion endpoint gives
RagAnswers == { <<"O","K">> }

\* what the embeddings endpoint returns for a query (route.ts:178-182)
QueryEmbedding == [dim |-> 1536, dir |-> 1]

ChatRequest(s) ==
    [ep |-> "chat", pc |-> "body", session |-> s, status |-> 0, log |-> <<>>,
     errs |-> {}, chatId |-> None, prompt |-> <<>>, user |-> None, chat |-> None,
     similar |-> <<>>, response |-> <<>>, i |-> 0, fullText |-> <<>>,
     frames |-> <<>>, closed |-> FALSE]

\* an exception that leaves the handler: the framework answers 500
Unhandled(rq, at) == [rq EXCEPT !.pc = "done", !.status = 500, !.errs = @ \cup {at}]

ChatUnchanged == UNCHANGED <<invoices, accounts, searches, env>>

\* route.ts:10-16: auth()
ChatAuth(r) ==
    /\ Accept(r)
    /\ \E s \in Sessions :
          req' = [req EXCEPT ![r] =
                    IF Unauthorized(s)
                    THEN [ChatRequest(s) EXCEPT !.pc = "done", !.status = 401]
                    ELSE ChatRequest(s)]
    /\ UNCHANGED <<users, chats, messages, nextId>>
    /\ ChatUnchanged

\* the ids of the chats that the chat clients hold
clientChatIds ==
    UNION {{req[q].chats[k].id : k \in 1..Len(req[q].chats)} :
              q \in {q \in Req : req[q].ep = "client"}}

\* route.ts:18-24: the body; a prompt that is no string is read as the empty one
ChatBody(r) ==
    /\ At(r, "chat", "body")
    /\ \E chatId \in {None} \cup {Some(c.id) : c \in chats} \cup {Some(id) : id \in clientChatIds},
          prompt \in Prompts \cup {<<>>} :
          req' = [req EXCEPT ![r] =
                    IF prompt = <<>>
                    THEN [@ EXCEPT !.pc = "done", !.status = 400]
                    ELSE [@ EXCEPT !.pc = "findUser", !.chatId = chatId, !.prompt = prompt]]
    /\ UNCHANGED <<users, chats, messages, nextId>>
    /\ ChatUnchanged

\* route.ts:28: prisma.user.findUnique
ChatFindUser(r) ==
    /\ At(r, "chat", "findUser")
    /\ \E o \in DbOutcome :
          req' = [req EXCEPT ![r] =
                    IF o = "throw" THEN Unhandled(@, "findUser")
                    ELSE LET found == UserByEmail(req[r].session.email)
                         IN  IF found = {} THEN [@ EXCEPT !.pc = "createUser"]
                             ELSE [@ EXCEPT !.pc = "findChat", !.user = Some(The(found).id)]]
    /\ UNCHANGED <<users, chats, messages, nextId>>
    /\ ChatUnchanged

\* the row route.ts:33-39 (and part_003:16-22) creates
NewUser(id, email) == [id |-> id, email |-> email, passwordHash |-> Some(<<>>)]

\* route.ts:31-41: prisma.user.create
ChatCreateUser(r) ==
    /\ At(r, "chat", "createUser")
    /\ \E o \in DbOutcome :
          IF o = "throw" \/ ~EmailFree(req[r].session.email)
          THEN /\ req' = [req EXCEPT ![r] = Unhandled(@, "createUser")]
               /\ UNCHANGED <<users, nextId>>
          ELSE /\ users' = users \cup {NewUser(nextId, req[r].session.email)}
               /\ nextId' = nextId + 1
               /\ req' = [req EXCEPT ![r] =
                            [@ EXCEPT !.pc = "findChat", !.user = Some(nextId),
                                      !.log = Append(@, Ev("write", "user.create", nextId))]]
    /\ UNCHANGED <<chats, messages>>
    /\ ChatUnchanged

\* ChatFindSession with findFirst({ id: chatId }), whoever owns the session
ChatFindSessionAnyOwner(r) ==
    /\ At(r, "chat", "findChat")
    /\ \E o \in DbOutcome :
          req' = [req EXCEPT ![r] =
                    IF req[r].chatId = None THEN [@ EXCEPT !.pc = "createChat"]
                    ELSE IF o = "throw" THEN Unhandled(@, "findChat")
                    ELSE LET found == {c \in chats : c.id = The(req[r].chatId)}
                         IN  IF found = {} THEN [@ EXCEPT !.pc = "createChat"]
                             ELSE [@ EXCEPT !.pc = "saveUser", !.chat = Some(The(found).id)]]
    /\ UNCHANGED <<users, chats, messages, nextId>>
    /\ ChatUnchanged

\* route.ts:45-47: prisma.chatSession.findFirst({ id: chatId, userId: user.id })
ChatFindSession(r) ==
    /\ At(r, "chat", "findChat")
    /\ \E o \in DbOutcome :
          req' = [req EXCEPT ![r] =
                    IF req[r].chatId = None THEN [@ EXCEPT !.pc = "createChat"]
                    ELSE IF o = "throw" THEN Unhandled(@, "findChat")
                    ELSE LET found == {c \in chats : c.id = The(req[r].chatId)
                                                      /\ c.userId = The(req[r].user)}
                         IN  IF found = {} THEN [@ EXCEPT !.pc = "createChat"]
                             ELSE [@ EXCEPT !.pc = "saveUser", !.chat = Some(The(found).id)]]
    /\ UNCHANGED <<users, chats, messages, nextId>>
    /\ ChatUnchanged

\* route.ts:53: prompt.slice(0, 32) || "New chat"
TitleLen == 32
\* chatTitle without the cut
chatTitleWhole(prompt) == IF prompt = <<>> THEN Texts.NewChatTitle ELSE prompt
chatTitle(prompt) == IF slice0(prompt, TitleLen) = <<>> THEN Texts.NewChatTitle
                     ELSE slice0(prompt, TitleLen)

\* route.ts:50-56: prisma.chatSession.create
ChatCreateSession(r) ==
    /\ At(r, "chat", "createChat")
    /\ \E o \in DbOutcome :
          IF o = "throw"
          THEN /\ req' = [req EXCEPT ![r] = Unhandled(@, "createChat")]
               /\ UNCHANGED <<chats, nextId>>
          ELSE /\ chats' = chats \cup {[id |-> nextId, userId |-> The(req[r].user),
                                        title |-> chatTitle(req[r].prompt)]}
               /\ nextId' = nextId + 1
               /\ req' = [req EXCEPT ![r] =
                            [@ EXCEPT !.pc = "saveUser", !.chat = Some(nextId),
                                      !.log = Append(@, Ev("write", "chatSession.create", nextId))]]
    /\ UNCHANGED <<users, messages>>
    /\ ChatUnchanged

\* route.ts:60-62: prisma.message.create of the user's message
ChatSaveUserMessage(r) ==
    /\ At(r, "chat", "saveUser")
    /\ \E o \in DbOutcome :
          IF o = "throw" \/ ~MessageFkHolds(The(req[r].chat))
          THEN /\ req' = [req EXCEPT ![r] = Unhandled(@, "saveUser")]
               /\ UNCHANGED <<messages, nextId>>
          ELSE /\ messages' = Append(messages, [id |-> nextId, chatId |-> The(req[r].chat),
                                                role |-> "user", content |-> req[r].prompt])
               /\ nextId' = nextId + 1
               /\ req' = [req EXCEPT ![r] =
                            [@ EXCEPT !.pc = "generate",
                                      !.log = Append(@, Ev("write", "message.create", nextId))]]
    /\ UNCHANGED <<users, chats>>
    /\ ChatUnchanged

\* route.ts:528-553: getHardcodedResponse off the invoice branch
ChatCannedResponse(r) ==
    /\ At(r, "chat", "generate")
    /\ ~isInvoiceQuery(req[r].prompt)
    /\ req' = [req EXCEPT ![r] =
                 [@ EXCEPT !.pc = "stream", !.response = cannedResponse(req[r].prompt)]]
    /\ UNCHANGED <<users, chats, messages, nextId>>
    /\ ChatUnchanged

\* route.ts:389-397: getInvoiceResponse looks the user up again
ChatInvoiceFindUser(r) ==
    /\ At(r, "chat", "generate")
    /\ isInvoiceQuery(req[r].prompt)
    /\ \E o \in DbOutcome :
          req' = [req EXCEPT ![r] =
                    IF o = "throw"
                    THEN [@ EXCEPT !.pc = "stream", !.response = Texts.TroubleText,
                                   !.errs = @ \cup {"invoiceQuery"}]
                    ELSE IF UserByEmail(req[r].session.email) = {}
                    THEN [@ EXCEPT !.pc = "stream", !.response = Texts.NoAccountText]
                    ELSE [@ EXCEPT !.pc = "embed"]]
    /\ UNCHANGED <<users, chats, messages, nextId>>
    /\ ChatUnchanged

\* route.ts:171-191 and 404: generateQueryEmbedding; a failure is caught at 415
ChatQueryEmbedding(r) ==
    /\ At(r, "chat", "embed")
    /\ \E o \in FetchOutcome :
          req' = [req EXCEPT ![r] =
                    IF o = "ok"
                    THEN [@ EXCEPT !.pc = "similar",
                                   !.log = Append(@, Ev("fetch", "embeddings", Null))]
                    ELSE [@ EXCEPT !.pc = "fallback", !.errs = @ \cup {"embedding"},
                                   !.log = Append(@, Ev("fetch", "embeddings", Null))]]
    /\ UNCHANGED <<users, chats, messages, nextId>>
    /\ ChatUnchanged

\* route.ts:194-225: the user's processed invoices whose stored vector can be
\* compared with the query's (cosineSimilarity throws on another length), the
\* first ten of them; their ranking does not show in the modelled answer
findSimilarInvoices(queryEmbedding, userId) ==
    LET comparable(inv) == /\ inv.userId = userId
                           /\ inv.status = "processed"
                           /\ inv.embeddings # None
                           /\ The(inv.embeddings).dim = queryEmbedding.dim
        found == SelectSeq(invoices, comparable)
    IN  SubSeq(found, 1, IF Len(found) < 10 THEN Len(found) ELSE 10)

\* route.ts:408-414: findSimilarInvoices; a failure is caught at 415
ChatFindSimilar(r) ==
    /\ At(r, "chat", "similar")
    /\ \E o \in DbOutcome :
          req' = [req EXCEPT ![r] =
                    IF o = "throw"
                    THEN [@ EXCEPT !.pc = "fallback", !.errs = @ \cup {"similar"}]
                    ELSE LET found == findSimilarInvoices(QueryEmbedding, The(req[r].user))
                         IN  IF Len(found) > 0
                             THEN [@ EXCEPT !.pc = "rag", !.similar = found]
                             ELSE [@ EXCEPT !.pc = "fallback"]]
    /\ UNCHANGED <<users, chats, messages, nextId>>
    /\ ChatUnchanged

\* route.ts:251-328: generateRAGResponse; without a completion it formats locally
ChatRAGResponse(r) ==
    /\ At(r, "chat", "rag")
    /\ \E o \in FetchOutcome, answer \in RagAnswers \cup {<<>>} :
          req' = [req EXCEPT ![r] =
                    IF o = "ok" /\ answer # <<>>
                    THEN [@ EXCEPT !.pc = "stream", !.response = answer,
                                   !.log = Append(@, Ev("fetch", "completions", Null))]
                    ELSE [@ EXCEPT !.pc = "stream",
                                   !.response = formatBasicInvoiceResponse(req[r].prompt, req[r].similar),
                                   !.errs = @ \cup (IF o = "ok" THEN {} ELSE {"completion"}),
                                   !.log = Append(@, Ev("fetch", "completions", Null))]]
    /\ UNCHANGED <<users, chats, messages, nextId>>
    /\ ChatUnchanged

\* route.ts:430-519: the answer computed from the user's processed invoices
fallbackAnswer(userPrompt, invs) ==
    LET searchLower == toLowerCase(userPrompt)
        isGeneralListQuery ==
            \/ includes(searchLower, <<"l","i","s","t">>) \/ includes(searchLower, <<"a","l","l">>)
            \/ includes(searchLower, <<"s","h","o","w">>) \/ includes(searchLower, <<"g","i","v","e">>)
            \/ includes(searchLower, <<"m","y"," ","i","n","v","o","i","c","e","s">>)
        isExpenseQuery ==
            \/ includes(searchLower, <<"e","x","p","e","n","s","e">>) \/ includes(searchLower, <<"s","p","e","n","d">>)
            \/ includes(searchLower, <<"c","o","s","t">>) \/ includes(searchLower, <<"a","m","o","u","n","t">>)
            \/ includes(searchLower, <<"t","o","t","a","l">>) \/ includes(searchLower, <<"m","o","s","t">>)
            \/ includes(searchLower, <<"h","i","g","h","e","s","t">>) \/ includes(searchLower, <<"b","i","g","g","e","s","t">>)
            \/ includes(searchLower, <<"m","o","n","t","h">>) \/ includes(searchLower, <<"w","h","i","c","h">>)
        matches(inv) ==
            \/ includes(toLowerCase(jsonStringify(inv.extractedData)), searchLower)
            \/ includes(toLowerCase(jsonStringify(inv.classifiedData)), searchLower)
            \/ includes(toLowerCase(inv.filename), searchLower)
        relevantInvoices ==
            IF isGeneralListQuery \/ isExpenseQuery THEN invs ELSE SelectSeq(invs, matches)
    IN  IF Len(invs) = 0 THEN Texts.NoInvoicesText
        ELSE IF Len(relevantInvoices) = 0 THEN Texts.NoMatchText
        ELSE IF ~isGeneralListQuery /\ isExpenseQuery
        THEN handleExpenseAnalysisQuery(userPrompt, relevantInvoices)
        ELSE Texts.FoundRelevantHead

\* route.ts:421-427: prisma.invoice.findMany of the fallback; a failure is caught at 521
ChatFallback(r) ==
    /\ At(r, "chat", "fallback")
    /\ \E o \in DbOutcome :
          req' = [req EXCEPT ![r] =
                    IF o = "throw"
                    THEN [@ EXCEPT !.pc = "stream", !.response = Texts.TroubleText,
                                   !.errs = @ \cup {"invoiceQuery"}]
                    ELSE LET userId == The(req[r].user)
                             mine(inv) == inv.userId = userId /\ inv.status = "processed"
                         IN  [@ EXCEPT !.pc = "stream",
                                !.response = fallbackAnswer(req[r].prompt, SelectSeq(invoices, mine))]]
    /\ UNCHANGED <<users, chats, messages, nextId>>
    /\ ChatUnchanged

\* the frames of the event stream
StartFrame(chatId, messageId) == [event |-> "start", chatId |-> chatId, messageId |-> messageId]
ChunkFrame(char, chatId) == [event |-> "chunk", content |-> char, chatId |-> chatId]
DoneFrame(messageId, fullText, chatId) ==
    [event |-> "done", messageId |-> messageId, fullText |-> fullText, chatId |-> chatId]
ErrorFrame == [event |-> "error", error |-> "Failed to process message"]

\* controller.enqueue
Enqueue(rq, frame) ==
    [rq EXCEPT !.frames = Append(@, frame), !.log = Append(@, Ev("frame", frame.event, Len(rq.frames) + 1))]

\* route.ts:561-570 and 625: start() enqueues the start frame; the handler answers 200
ChatStreamStart(r) ==
    /\ At(r, "chat", "stream")
    /\ req' = [req EXCEPT ![r] =
                 [Enqueue(@, StartFrame(The(req[r].chat), r)) EXCEPT !.status = 200, !.pc = "chunks"]]
    /\ UNCHANGED <<users, chats, messages, nextId>>
    /\ ChatUnchanged

\* route.ts:574-588: one turn of the loop, up to its 20 ms wait
ChatStreamChunk(r) ==
    /\ At(r, "chat", "chunks")
    /\ req[r].i < Len(req[r].response)
    /\ LET char == req[r].response[req[r].i + 1]
       IN  req' = [req EXCEPT ![r] =
                     [Enqueue(@, ChunkFrame(char, The(req[r].chat)))
                        EXCEPT !.i = @ + 1, !.fullText = Append(@, char)]]
    /\ UNCHANGED <<users, chats, messages, nextId>>
    /\ ChatUnchanged

\* ChatStreamFinish with the done frame sent before the assistant message is saved
ChatStreamFinishDoneFirst(r) ==
    /\ At(r, "chat", "chunks")
    /\ req[r].i = Len(req[r].response)
    /\ \E o \in DbOutcome :
          IF o = "throw" \/ ~MessageFkHolds(The(req[r].chat))
          THEN /\ req' = [req EXCEPT ![r] =
                            [Enqueue(@, ErrorFrame) EXCEPT !.pc = "done", !.closed = TRUE,
                                                           !.errs = @ \cup {"saveAssistant"}]]
               /\ UNCHANGED <<messages, nextId>>
          ELSE /\ messages' = Append(messages, [id |-> nextId, chatId |-> The(req[r].chat),
                                                role |-> "assistant",
                                                content |-> req[r].fullText])
               /\ nextId' = nextId + 1
               /\ req' = [req EXCEPT ![r] =
                            [Enqueue(@, DoneFrame(r, req[r].fullText, The(req[r].chat)))
                               EXCEPT !.pc = "done", !.closed = TRUE,
                                      !.log = Append(@, Ev("write", "message.create", nextId))]]
    /\ UNCHANGED <<users, chats>>
    /\ ChatUnchanged

\* route.ts:593-609: persist the assistant message, then done and close;
\* 611-621: a failure is answered with an error frame and close
ChatStreamFinish(r) ==
    /\ At(r, "chat", "chunks")
    /\ req[r].i = Len(req[r].response)
    /\ \E o \in DbOutcome :
          IF o = "throw" \/ ~MessageFkHolds(The(req[r].chat))
          THEN /\ req' = [req EXCEPT ![r] =
                            [Enqueue(@, ErrorFrame) EXCEPT !.pc = "done", !.closed = TRUE,
                                                           !.errs = @ \cup {"saveAssistant"}]]
               /\ UNCHANGED <<messages, nextId>>
          ELSE /\ messages' = Append(messages, [id |-> nextId, chatId |-> The(req[r].chat),
                                                role |-> "assistant",
                                                content |-> req[r].fullText])
               /\ nextId' = nextId + 1
               /\ req' = [req EXCEPT ![r] =
                            [Enqueue([@ EXCEPT !.log = Append(@, Ev("write", "message.create", nextId))],
                                     DoneFrame(r, req[r].fullText, The(req[r].chat)))
                               EXCEPT !.pc = "done", !.closed = TRUE]]
    /\ UNCHANGED <<users, chats>>
    /\ ChatUnchanged

(***************************************************************************)
(* DELETE /api/chats/:id (route.ts:640-681).  Every exception is caught at  *)
(* 677 and answered 500.                                                    *)
(***************************************************************************)
DeleteRequest(s, chatId) ==
    [ep |-> "delete", pc |-> "findUser", session |-> s, status |-> 0, log |-> <<>>,
     errs |-> {}, chatId |-> chatId, user |-> None]

Respond(rq, status) == [rq EXCEPT !.pc = "done", !.status = status]
Caught(rq, at, status) == [rq EXCEPT !.pc = "done", !.status = status, !.errs = @ \cup {at}]

DeleteUnchanged == UNCHANGED <<users, invoices, accounts, searches, nextId, env>>

\* route.ts:645-650: auth() and the id of the path
DeleteAuth(r) ==
    /\ Accept(r)
    /\ \E s \in Sessions, c \in chats :
          req' = [req EXCEPT ![r] =
                    IF Unauthorized(s) THEN Respond(DeleteRequest(s, c.id), 401)
                    ELSE DeleteRequest(s, c.id)]
    /\ UNCHANGED <<chats, messages>>
    /\ DeleteUnchanged

\* route.ts:653-656
DeleteFindUser(r) ==
    /\ At(r, "delete", "findUser")
    /\ \E o \in DbOutcome :
          req' = [req EXCEPT ![r] =
                    IF o = "throw" THEN Caught(@, "findUser", 500)
                    ELSE LET found == UserByEmail(req[r].session.email)
                         IN  IF found = {} THEN Respond(@, 404)
                             ELSE [@ EXCEPT !.pc = "findChat", !.user = Some(The(found).id)]]
    /\ UNCHANGED <<chats, messages>>
    /\ DeleteUnchanged

\* route.ts:659-665
DeleteFindSession(r) ==
    /\ At(r, "delete", "findChat")
    /\ \E o \in DbOutcome :
          req' = [req EXCEPT ![r] =
                    IF o = "throw" THEN Caught(@, "findChat", 500)
                    ELSE IF \E c \in chats : c.id = req[r].chatId /\ c.userId = The(req[r].user)
                    THEN [@ EXCEPT !.pc = "deleteMessages"]
                    ELSE Respond(@, 404)]
    /\ UNCHANGED <<chats, messages>>
    /\ DeleteUnchanged

\* DeleteMessages with deleteMany({ }) taking the messages of every session
DeleteMessagesEverywhere(r) ==
    /\ At(r, "delete", "deleteMessages")
    /\ \E o \in DbOutcome :
          IF o = "throw"
          THEN /\ req' = [req EXCEPT ![r] = Caught(@, "deleteMessages", 500)]
               /\ UNCHANGED messages
          ELSE /\ messages' = <<>>
               /\ req' = [req EXCEPT ![r] =
                            [@ EXCEPT !.pc = "deleteSession",
                                      !.log = Append(@, Ev("write", "message.deleteMany", req[r].chatId))]]
    /\ UNCHANGED chats
    /\ DeleteUnchanged

\* route.ts:668-670: prisma.message.deleteMany({ chatId })
DeleteMessages(r) ==
    /\ At(r, "delete", "deleteMessages")
    /\ \E o \in DbOutcome :
          IF o = "throw"
          THEN /\ req' = [req EXCEPT ![r] = Caught(@, "deleteMessages", 500)]
               /\ UNCHANGED messages
          ELSE /\ messages' = SelectSeq(messages, LAMBDA m : m.chatId # req[r].chatId)
               /\ req' = [req EXCEPT ![r] =
                            [@ EXCEPT !.pc = "deleteSession",
                                      !.log = Append(@, Ev("write", "message.deleteMany", req[r].chatId))]]
    /\ UNCHANGED chats
    /\ DeleteUnchanged

\* route.ts:672-676: prisma.chatSession.delete({ id }); it throws when the row is
\* gone, and when messages still reference the session
DeleteSession(r) ==
    /\ At(r, "delete", "deleteSession")
    /\ \E o \in DbOutcome :
          LET id == req[r].chatId
          IN  IF \/ o = "throw"
                 \/ ~\E c \in chats : c.id = id
                 \/ ~SessionFkHolds(id)
              THEN /\ req' = [req EXCEPT ![r] = Caught(@, "deleteSession", 500)]
                   /\ UNCHANGED <<chats, messages>>
              ELSE /\ chats' = {c \in chats : c.id # id}
                   /\ UNCHANGED messages
                   /\ req' = [req EXCEPT ![r] =
                                [@ EXCEPT !.pc = "done", !.status = 200,
                                          !.log = Append(@, Ev("write", "chatSession.delete", id))]]
    /\ DeleteUnchanged

(***************************************************************************)
(* The chat specification: POST /api/chat and DELETE /api/chats/:id over a  *)
(* database that holds the seeded demo user and one processed invoice.      *)
(***************************************************************************)
\* src/scripts/seed.ts: the demo user's row
SeedUser == [id |-> 1, email |-> DemoEmail, passwordHash |-> Some(bcryptHash(DemoPassword))]

\* a processed invoice as part_005:88-105 / part_006:232-239 leave it; createdAt
\* is the time of the create call, on a clock that counts the rows created
InvoiceRow(id, userId, filename, status, data, embeddings) ==
    [id |-> id, userId |-> userId, filename |-> filename, status |-> status,
     extractedData |-> data, classifiedData |-> data, embeddings |-> embeddings,
     createdAt |-> id]

SampleData ==
    << [k |-> <<"i","n","v","o","i","c","e","_","n","u","m","b","e","r">>, v |-> Str(<<"I","N","V","-","2","0","2","4","-","0","0","1">>)],
       [k |-> <<"v","e","n","d","o","r","_","n","a","m","e">>, v |-> Str(<<"S","a","m","p","l","e"," ","V","e","n","d","o","r">>)],
       [k |-> <<"t","o","t","a","l","_","a","m","o","u","n","t">>, v |-> Str(<<"$","1",",","2","5","0",".","0","0">>)] >>

SeedInvoice ==
    InvoiceRow(2, 1, <<"a",".","p","d","f">>, "processed", SampleData, Some([dim |-> 1536, dir |-> 1]))

\* two sessions of the demo user as earlier POST /api/chat requests left them
SeedChats ==
    { [id |-> 3, userId |-> 1, title |-> <<"h","i">>],
      [id |-> 6, userId |-> 1, title |-> <<"b","i","l","l">>] }

SeedMessages ==
    << [id |-> 4, chatId |-> 3, role |-> "user", content |-> <<"h","i">>],
       [id |-> 5, chatId |-> 3, role |-> "assistant", content |-> Texts.HelloText],
       [id |-> 7, chatId |-> 6, role |-> "user", content |-> <<"b","i","l","l">>],
       [id |-> 8, chatId |-> 6, role |-> "assistant", content |-> <<"O","K">>] >>

InitChat ==
    /\ users = {SeedUser}
    /\ chats = SeedChats
    /\ messages = SeedMessages
    /\ invoices = <<SeedInvoice>>
    /\ accounts = {}
    /\ searches = <<>>
    /\ req = [r \in 1..MaxReq |-> Idle]
    /\ nextId = 10
    /\ env = [logs |-> <<>>]

NextChat ==
    \E r \in 1..MaxReq :
        \/ ChatAuth(r) \/ ChatBody(r) \/ ChatFindUser(r) \/ ChatCreateUser(r)
        \/ ChatFindSession(r) \/ ChatCreateSession(r) \/ ChatSaveUserMessage(r)
        \/ ChatCannedResponse(r) \/ ChatInvoiceFindUser(r) \/ ChatQueryEmbedding(r)
        \/ ChatFindSimilar(r) \/ ChatRAGResponse(r) \/ ChatFallback(r)
        \/ ChatStreamStart(r) \/ ChatStreamChunk(r) \/ ChatStreamFinish(r)
        \/ DeleteAuth(r) \/ DeleteFindUser(r) \/ DeleteFindSession(r)
        \/ DeleteMessages(r) \/ DeleteSession(r)

SpecChat == InitChat /\ [][NextChat]_vars

(***************************************************************************)
(* Properties of POST /api/chat and DELETE /api/chats/:id.                  *)
(***************************************************************************)
\* the places in a request's record of the frames it sent and of its writes
frameAt(rq, n) == CHOOSE k \in 1..Len(rq.log) : rq.log[k].k = "frame" /\ rq.log[k].val = n
writesOf(rq, what) == {k \in 1..Len(rq.log) : rq.log[k].k = "write" /\ rq.log[k].what = what}
hasFrame(rq, event) == \E n \in 1..Len(rq.frames) : rq.frames[n].event = event

\* a chat request that passed authentication and validation
accepted(rq) == rq.ep = "chat" /\ rq.prompt # <<>>
\* an accepted request that was answered and whose stream ended without an error frame
streamed(rq) == accepted(rq) /\ rq.pc = "done" /\ rq.status = 200 /\ ~hasFrame(rq, "error")

\* the contents of the chunk frames of a finished stream, in order
chunkText(rq) == [n \in 1..(Len(rq.frames) - 2) |-> rq.frames[n + 1].content]

C1_Frames(rq) ==
    LET n == Len(rq.response)
        chat == The(rq.chat)
        saved == writesOf(rq, "message.create")
    IN  /\ Len(rq.frames) = n + 2
        /\ rq.frames[1].event = "start"
        /\ \A i \in 1..n : rq.frames[i + 1] = ChunkFrame(rq.response[i], chat)
        /\ rq.frames[n + 2].event = "done"
        /\ rq.frames[n + 2].fullText = chunkText(rq)
        /\ rq.closed
        /\ Cardinality(saved) = 2
        /\ \E u, a \in saved :
              /\ u < frameAt(rq, 1)
              /\ frameAt(rq, n + 1) < a /\ a < frameAt(rq, n + 2)
              /\ \A k \in 1..Len(rq.log) : rq.log[k].k = "frame" => k > u

\* the step of request r that saves a message appends this row
C1_Saves(r) ==
    /\ (req[r].pc = "saveUser" /\ req'[r].pc = "generate") =>
          \E id \in 1..nextId :
             messages' = Append(messages, [id |-> id, chatId |-> The(req[r].chat),
                                           role |-> "user", content |-> req[r].prompt])
    /\ (req[r].pc = "chunks" /\ hasFrame(req'[r], "done")) =>
          \E id \in 1..nextId :
             messages' = Append(messages, [id |-> id, chatId |-> The(req[r].chat),
                                           role |-> "assistant", content |-> chunkText(req'[r])])

\* C1: an accepted chat request whose stream runs without error saves the user
\* message before it emits any frame, emits exactly start, one chunk per
\* character of the response in order, and done, then closes; it saves the
\* assistant message after the last chunk and before done, with the
\* concatenation of the chunks, which is the fullText of the done frame.
C1_StreamOrder ==
    /\ [](\A r \in Req : /\ (req[r].ep = "chat" /\ req[r].frames # <<>>) =>
                               \E u \in writesOf(req[r], "message.create") : u < frameAt(req[r], 1)
                         /\ streamed(req[r]) => C1_Frames(req[r]))
    /\ [][\A r \in Req : req[r].ep = "chat" => C1_Saves(r)]_vars

C1_Witness ==
    \E r \in Req : streamed(req[r]) /\ req[r].response = Texts.HelloText /\ req[r].closed

\* C2: a chat request without a chatId creates exactly one ChatSession, owned
\* by the requesting user and titled with the first 32 characters of the
\* prompt, and attaches the prompt's user message to it.
C2_NewSession ==
    /\ [](\A r \in Req :
            (accepted(req[r]) /\ req[r].chatId = None /\ req[r].status = 200) =>
                Cardinality(writesOf(req[r], "chatSession.create")) = 1)
    /\ [][\A r \in Req :
            (accepted(req[r]) /\ req[r].chatId = None) =>
               /\ (req[r].pc = "createChat" /\ req'[r].pc = "saveUser") =>
                     LET p == req[r].prompt
                         owner == CHOOSE u \in users : u.email = req[r].session.email
                         first == SubSeq(p, 1, IF Len(p) < TitleLen THEN Len(p) ELSE TitleLen)
                     IN  /\ req'[r].chat \cap {c.id : c \in chats} = {}
                         /\ chats' = chats \cup {[id |-> The(req'[r].chat), userId |-> owner.id,
                                                  title |-> first]}
               /\ (req[r].pc = "saveUser" /\ req'[r].pc = "generate") =>
                     /\ writesOf(req[r], "chatSession.create") # {}
                     /\ Len(messages') = Len(messages) + 1
                     /\ messages'[Len(messages')].chatId = The(req[r].chat)
                     /\ messages'[Len(messages')].content = req[r].prompt
                     /\ messages'[Len(messages')].role = "user"]_vars

C2_Witness ==
    \E r \in Req :
       /\ accepted(req[r]) /\ req[r].chatId = None /\ req[r].status = 200
       /\ Len(req[r].prompt) > TitleLen
       /\ \E c \in chats : c.id = The(req[r].chat) /\ Len(c.title) = TitleLen
       /\ \E i \in 1..Len(messages) :
             messages[i].chatId = The(req[r].chat) /\ messages[i].content = req[r].prompt

\* C3: when DELETE /api/chats/:id answers success for a session of the
\* requester, no session has that id and no message has that chatId, and the
\* request's steps left the sessions and messages of other chats as they were.
C3_DeleteCleansUp ==
    [][\A r \in Req : req[r].ep = "delete" =>
         LET id == req[r].chatId
             others(ms) == SelectSeq(ms, LAMBDA m : m.chatId # id)
         IN  /\ (req'[r].status = 200 /\ req[r].status # 200) =>
                   /\ \E c \in chats : c.id = id /\ c.userId = The(req[r].user)
                   /\ ~\E c \in chats' : c.id = id
                   /\ ~\E i \in 1..Len(messages') : messages'[i].chatId = id
             /\ req'[r] # req[r] =>
                   /\ {c \in chats' : c.id # id} = {c \in chats : c.id # id}
                   /\ others(messages') = others(messages)]_vars

C3_Witness ==
    \E r \in Req :
       /\ req[r].ep = "delete" /\ req[r].status = 200
       /\ chats # {} /\ messages # <<>>
       /\ ~\E c \in chats : c.id = req[r].chatId
       /\ writesOf(req[r], "message.deleteMany") # {}

\* C10: an accepted chat request in which any step failed ends with an error
\* frame and a closed stream, with no HTTP error status and no done frame.
C10_ErrorsAreFrames ==
    \A r \in Req :
       (accepted(req[r]) /\ req[r].pc = "done" /\ req[r].errs # {}) =>
          /\ req[r].status = 200
          /\ hasFrame(req[r], "error")
          /\ req[r].frames[Len(req[r].frames)].event = "error"
          /\ req[r].closed
          /\ ~hasFrame(req[r], "done")

(***************************************************************************)
(* POST /api/invoices/upload (part_006) and the mock upload POST            *)
(* /api/invoices (part_005:46-123).                                         *)
(***************************************************************************)
\* the messages of the errors the upload handler catches
UploadTexts ==
    [ \* part_006:67, the head of the message of a non-OK answer
      Returned |-> <<"P","y","t","h","o","n"," ","s","e","r","v","i","c","e"," ","r","e","t","u","r","n","e","d"," ">>,
      \* part_006:283
      Invalid |-> <<"I","n","v","a","l","i","d"," ","r","e","s","p","o","n","s","e"," ","f","r","o","m"," ","P","y","t","h","o","n"," ","s","e","r","v","i","c","e">>,
      \* part_006:291
      Marker |-> <<"P","D","F","_","E","N","C","R","Y","P","T","E","D">>,
      \* part_006:298
      Encrypted |-> <<"P","D","F"," ","f","i","l","e"," ","i","s"," ","e","n","c","r","y","p","t","e","d"," ","o","r"," ","p","a","s","s","w","o","r","d","-","p","r","o","t","e","c","t","e","d">>,
      \* part_006:318
      Failed |-> <<"P","r","o","c","e","s","s","i","n","g"," ","f","a","i","l","e","d">>,
      \* part_006:161
      Complete |-> <<"P","r","o","c","e","s","s","i","n","g"," ","C","o","m","p","l","e","t","e">>,
      \* part_006:135
      Success |-> <<"S","u","c","c","e","s","s","f","u","l","l","y"," ","p","r","o","c","e","s","s","e","d"," ","b","y"," ","A","I">>,
      \* the message of a rejected fetch and of a failed database call
      FetchFailed |-> <<"f","e","t","c","h"," ","f","a","i","l","e","d">>,
      DbFailed |-> <<"C","a","n","'","t"," ","r","e","a","c","h"," ","d","a","t","a","b","a","s","e"," ","s","e","r","v","e","r">> ]

\* the file of an upload's form: absent, or a file by its name
Files == {None, Some(<<"b",".","p","d","f">>)}

\* what the parsing service says of a file it cannot read (its README:190-192)
ServiceErrors == { <<"P","D","F","_","E","N","C","R","Y","P","T","E","D",":"," ","t","h","e"," ","f","i","l","e"," ","i","s"," ","p","a","s","s","w","o","r","d"," ","p","r","o","t","e","c","t","e","d">>, <<"C","o","u","l","d"," ","n","o","t"," ","p","r","o","c","e","s","s"," ","P","D","F">> }

\* the answers of the parsing service: a 2xx answer that is a spreadsheet, a
\* 2xx answer with a JSON body (an object with or without an error member) or
\* with a body that is no JSON, an answer of another status with a text body
ParserReplies ==
    {[ok |-> TRUE, type |-> "spreadsheet", error |-> <<>>],
     [ok |-> TRUE, type |-> "json", error |-> <<>>],
     [ok |-> TRUE, type |-> "html", error |-> <<>>]}
    \cup {[ok |-> TRUE, type |-> "json", error |-> e] : e \in ServiceErrors}
    \cup {[ok |-> FALSE, type |-> "text", error |-> e] : e \in ServiceErrors}

\* the payment_info text of the files the service leaves in invoice-service/logs
PaymentInfos == { <<"T","o","t","a","l"," ","A","m","o","u","n","t"," ","D","u","e",","," ","<20B9>","7",",","4","6","8",".","0","0","\n","P","a","i","d">>, <<"B","a","l","a","n","c","e",":"," ","1","2">> }

\* part_006:117-118: paymentInfo.match(/Total Amount Due[,;]\s*([₹$]?\d+(?:,\d+)*(?:\.\d+)?)/i),
\* the capture of the leftmost match, '0' without one
RECURSIVE digitGroups(_, _)
digitGroups(s, e) ==
    IF e + 1 <= Len(s) /\ s[e] = "," /\ digitRun(s, e + 1) > 0
    THEN digitGroups(s, e + 1 + digitRun(s, e + 1))
    ELSE e

totalAmountDue(paymentInfo) ==
    LET s == paymentInfo
        key == <<"t","o","t","a","l"," ","a","m","o","u","n","t"," ","d","u","e">>
        n == Len(key)
        from(i) == LET j == skipSpace(s, i + n + 1)
                   IN  IF j <= Len(s) /\ s[j] \in {"<20B9>", "$"} THEN j + 1 ELSE j
        matchAt(i) == /\ i + n <= Len(s)
                      /\ toLowerCase(SubSeq(s, i, i + n - 1)) = key
                      /\ s[i + n] \in {",", ";"}
                      /\ digitRun(s, from(i)) > 0
        starts == {i \in 1..Len(s) : matchAt(i)}
    IN  IF starts = {} THEN <<"0">>
        ELSE LET i == CHOOSE a \in starts : \A b \in starts : a <= b
                 j == skipSpace(s, i + n + 1)
                 e == digitGroups(s, from(i) + digitRun(s, from(i)))
                 f == IF e + 1 <= Len(s) /\ s[e] = "." /\ digitRun(s, e + 1) > 0
                      THEN e + 1 + digitRun(s, e + 1) ELSE e
             IN  SubSeq(s, j, f - 1)

\* part_006:130-151 and 159-170: realProcessedData, from the latest log file
\* or, without one, the fallback (the members the model keeps)
ProcessedData(totalAmount) ==
    << [k |-> <<"t","o","t","a","l","_","a","m","o","u","n","t">>, v |-> Str(totalAmount)],
       [k |-> <<"s","t","a","t","u","s">>, v |-> Str(UploadTexts.Success)] >>

realProcessedData(logs) ==
    IF Len(logs) > 0 THEN ProcessedData(totalAmountDue(logs[Len(logs)].payment))
    ELSE ProcessedData(UploadTexts.Complete)

\* part_006:36-40 and part_005:75-79: extractedData of a row just created
UploadedData ==
    << [k |-> <<"m","e","s","s","a","g","e">>, v |-> Str(<<"I","n","v","o","i","c","e"," ","u","p","l","o","a","d","e","d">>)] >>

\* part_006:295-301 and 313-320: extractedData of a row marked error
ErrorData(error) == << [k |-> <<"e","r","r","o","r">>, v |-> Str(error)] >>

\* the vectors an invoice may be stored with: of the embeddings API (1536
\* numbers) or Math.random (part_006:222), by their length and direction
Embeddings == {[dim |-> 1536, dir |-> d] : d \in {1, 2}}

UploadRequest(ep, s, file) ==
    [ep |-> ep, pc |-> "findUser", session |-> s, status |-> 0, log |-> <<>>, errs |-> {},
     file |-> file, user |-> None, invoice |-> None, reply |-> None, error |-> <<>>,
     data |-> <<>>, embeddings |-> None, body |-> None, timer |-> FALSE]

UploadUnchanged == UNCHANGED <<users, chats, messages, accounts, searches>>

\* prisma.invoice.update({ where: { id }, data }): the row with data's columns replaced
updateInvoice(id, data) ==
    [i \in 1..Len(invoices) |->
        IF invoices[i].id = id
        THEN [f \in DOMAIN invoices[i] |-> IF f \in DOMAIN data THEN data[f] ELSE invoices[i][f]]
        ELSE invoices[i]]

invoiceById(id) == invoices[CHOOSE i \in 1..Len(invoices) : invoices[i].id = id]

\* the JSON body of an upload's answer: the status and error it reports
Body(status, error) == Some([status |-> status, error |-> error])
\* part_006:7-10 and part_005:47-50: auth(); the form of the request
UploadAuth(r) ==
    /\ Accept(r)
    /\ \E ep \in {"upload", "mock"}, s \in Sessions, file \in Files :
          req' = [req EXCEPT ![r] =
                    IF Unauthorized(s) THEN Respond(UploadRequest(ep, s, file), 401)
                    ELSE UploadRequest(ep, s, file)]
    /\ UNCHANGED <<invoices, nextId, env>>
    /\ UploadUnchanged

\* UploadFindUser answering a form without a file as a success
UploadFindUserLenient(r) ==
    /\ Turn(r) /\ req[r].ep \in {"upload", "mock"} /\ req[r].pc = "findUser"
    /\ \E o \in DbOutcome :
          req' = [req EXCEPT ![r] =
                    IF o = "throw" THEN Caught(@, "findUser", 500)
                    ELSE LET found == UserByEmail(req[r].session.email)
                         IN  IF found = {} THEN Respond(@, 404)
                             ELSE IF req[r].file = None
                             THEN [Respond(@, 200) EXCEPT !.user = Some(The(found).id)]
                             ELSE [@ EXCEPT !.pc = "create", !.user = Some(The(found).id)]]
    /\ UNCHANGED <<invoices, nextId, env>>
    /\ UploadUnchanged

\* part_006:16-29 and part_005:54-66: prisma.user.findUnique, 404 without a
\* row; then the form, 400 without a file; a failure is caught at the end of
\* the handler, where no invoice exists yet (part_006:392-397, part_005:120-122)
UploadFindUser(r) ==
    /\ Turn(r) /\ req[r].ep \in {"upload", "mock"} /\ req[r].pc = "findUser"
    /\ \E o \in DbOutcome :
          req' = [req EXCEPT ![r] =
                    IF o = "throw" THEN Caught(@, "findUser", 500)
                    ELSE LET found == UserByEmail(req[r].session.email)
                         IN  IF found = {} THEN Respond(@, 404)
                             ELSE IF req[r].file = None
                             THEN [Respond(@, 400) EXCEPT !.user = Some(The(found).id)]
                             ELSE [@ EXCEPT !.pc = "create", !.user = Some(The(found).id)]]
    /\ UNCHANGED <<invoices, nextId, env>>
    /\ UploadUnchanged

\* part_006:32-43 and part_005:69-81: prisma.invoice.create with status
\* "processing"; the mock handler then sets its timer and answers (part_005:85-118)
UploadCreateInvoice(r) ==
    /\ Turn(r) /\ req[r].ep \in {"upload", "mock"} /\ req[r].pc = "create"
    /\ \E o \in DbOutcome :
          IF o = "throw"
          THEN /\ req' = [req EXCEPT ![r] = Caught(@, "create", 500)]
               /\ UNCHANGED <<invoices, nextId>>
          ELSE /\ invoices' = Append(invoices,
                                [InvoiceRow(nextId, The(req[r].user), The(req[r].file),
                                            "processing", UploadedData, None)
                                   EXCEPT !.classifiedData = <<>>])
               /\ nextId' = nextId + 1
               /\ req' = [req EXCEPT ![r] =
                            IF req[r].ep = "mock"
                            THEN [@ EXCEPT !.pc = "done", !.status = 200, !.timer = TRUE,
                                           !.invoice = Some(nextId),
                                           !.body = Body("processing", <<>>),
                                           !.log = Append(@, Ev("write", "invoice.create", nextId))]
                            ELSE [@ EXCEPT !.pc = "parse", !.invoice = Some(nextId),
                                           !.log = Append(@, Ev("write", "invoice.create", nextId))]]
    /\ UNCHANGED env
    /\ UploadUnchanged

\* part_005:85-110: the timer's callback, prisma.invoice.update to "processed";
\* a failure is caught at 107 and logged
MockTimer(r) ==
    /\ Turn(r) /\ req[r].ep = "mock" /\ req[r].timer
    /\ \E o \in DbOutcome :
          IF o = "throw"
          THEN /\ req' = [req EXCEPT ![r] = [@ EXCEPT !.timer = FALSE,
                                                       !.errs = @ \cup {"timer"}]]
               /\ UNCHANGED invoices
          ELSE /\ invoices' = updateInvoice(The(req[r].invoice),
                                 [status |-> "processed", extractedData |-> SampleData,
                                  classifiedData |-> SampleData,
                                  embeddings |-> Some([dim |-> 3, dir |-> 1])])
               /\ req' = [req EXCEPT ![r] =
                            [@ EXCEPT !.timer = FALSE,
                                      !.log = Append(@, Ev("write", "invoice.update", "processed"))]]
    /\ UNCHANGED <<nextId, env>>
    /\ UploadUnchanged

\* part_006:57-63: the request reaches the parsing service, which answers and,
\* when it parsed the file, may have left its processed data in the log folder
UploadParse(r) ==
    /\ At(r, "upload", "parse")
    /\ \/ /\ req' = [req EXCEPT ![r] =
                       [@ EXCEPT !.pc = "failed", !.error = UploadTexts.FetchFailed,
                                 !.errs = @ \cup {"parse"},
                                 !.log = Append(@, Ev("fetch", "parse-invoices", Null))]]
          /\ UNCHANGED env
       \/ \E reply \in ParserReplies :
             /\ req' = [req EXCEPT ![r] =
                          [@ EXCEPT !.pc = "parsed", !.reply = Some(reply),
                                    !.log = Append(@, Ev("fetch", "parse-invoices", Null))]]
             /\ IF reply.type = "spreadsheet"
                THEN \E wrote \in BOOLEAN, p \in PaymentInfos :
                        env' = IF wrote
                               THEN [env EXCEPT !.logs = Append(@, [by |-> The(req[r].invoice),
                                                                     payment |-> p])]
                               ELSE env
                ELSE UNCHANGED env
    /\ UNCHANGED <<invoices, nextId>>
    /\ UploadUnchanged

\* part_006:65-170 and 261-266: the answer is read; of a spreadsheet, the
\* latest file of the log folder gives the data (up to the await of the
\* embeddings at 203); of another answer, its JSON
UploadReadReply(r) ==
    /\ At(r, "upload", "parsed")
    /\ LET reply == The(req[r].reply)
       IN  req' = [req EXCEPT ![r] =
                     IF ~reply.ok
                     THEN [@ EXCEPT !.pc = "failed", !.errs = @ \cup {"parse"},
                                    !.error = UploadTexts.Returned \o reply.error]
                     ELSE IF reply.type = "spreadsheet"
                     THEN [@ EXCEPT !.pc = "embed", !.data = realProcessedData(env.logs)]
                     ELSE IF reply.type # "json" \/ reply.error # <<>>
                     THEN [@ EXCEPT !.pc = "failed", !.errs = @ \cup {"parse"},
                                    !.error = UploadTexts.Invalid]
                     ELSE [@ EXCEPT !.pc = "updateJson"]]
    /\ UNCHANGED <<invoices, nextId, env>>
    /\ UploadUnchanged

\* part_006:203-224: the embeddings API, or random numbers when it fails
UploadEmbed(r) ==
    /\ At(r, "upload", "embed")
    /\ \E o \in FetchOutcome, e \in Embeddings :
          req' = [req EXCEPT ![r] =
                    [@ EXCEPT !.pc = "update", !.embeddings = Some(e),
                              !.errs = @ \cup (IF o = "ok" THEN {} ELSE {"embedding"}),
                              !.log = Append(@, Ev("fetch", "embeddings", Null))]]
    /\ UNCHANGED <<invoices, nextId, env>>
    /\ UploadUnchanged

\* part_006:231-244: prisma.invoice.update to "processed"; a failure is caught
\* at 241 and the handler goes on
UploadUpdate(r) ==
    /\ At(r, "upload", "update")
    /\ \E o \in DbOutcome :
          IF o = "throw"
          THEN /\ req' = [req EXCEPT ![r] = [@ EXCEPT !.pc = "fetchInner",
                                                       !.errs = @ \cup {"update"}]]
               /\ UNCHANGED invoices
          ELSE /\ invoices' = updateInvoice(The(req[r].invoice),
                                 [status |-> "processed", extractedData |-> req[r].data,
                                  classifiedData |-> req[r].data,
                                  embeddings |-> req[r].embeddings])
               /\ req' = [req EXCEPT ![r] =
                            [@ EXCEPT !.pc = "fetchInner",
                                      !.log = Append(@, Ev("write", "invoice.update", "processed"))]]
    /\ UNCHANGED <<nextId, env>>
    /\ UploadUnchanged

\* part_006:268-277: prisma.invoice.update to "processed" with the JSON of the
\* service; a failure is caught at 281 and thrown on as an invalid response
UploadUpdateJson(r) ==
    /\ At(r, "upload", "updateJson")
    /\ \E o \in DbOutcome :
          IF o = "throw"
          THEN /\ req' = [req EXCEPT ![r] = [@ EXCEPT !.pc = "failed",
                                                       !.error = UploadTexts.Invalid,
                                                       !.errs = @ \cup {"update"}]]
               /\ UNCHANGED invoices
          ELSE /\ invoices' = updateInvoice(The(req[r].invoice),
                                 [status |-> "processed",
                                  extractedData |-> ProcessedData(<<"1","2">>),
                                  classifiedData |-> ProcessedData(<<"1","2">>),
                                  embeddings |-> None])
               /\ req' = [req EXCEPT ![r] =
                            [@ EXCEPT !.pc = "fetchOuter",
                                      !.log = Append(@, Ev("write", "invoice.update", "processed"))]]
    /\ UNCHANGED <<nextId, env>>
    /\ UploadUnchanged

\* part_006:247-259 and 333-344: prisma.invoice.findUnique and the answer 200
\* with the row's status; a failure is caught at 287 or at 346
UploadFetchUpdated(r) ==
    /\ Turn(r) /\ req[r].ep = "upload" /\ req[r].pc \in {"fetchInner", "fetchOuter"}
    /\ \E o \in DbOutcome :
          req' = [req EXCEPT ![r] =
                    IF o = "throw"
                    THEN [@ EXCEPT !.pc = IF req[r].pc = "fetchInner" THEN "failed" ELSE "failedOuter",
                                   !.error = UploadTexts.DbFailed, !.errs = @ \cup {"fetch"}]
                    ELSE [@ EXCEPT !.pc = "done", !.status = 200,
                                   !.body = Body(invoiceById(The(req[r].invoice)).status, <<>>)]]
    /\ UNCHANGED <<invoices, nextId, env>>
    /\ UploadUnchanged

\* part_006:287-330 and 346-391: the catch blocks store the error on the row
\* and answer 400 for an encrypted PDF, 500 otherwise; a failure of the inner
\* block's update is caught by the outer one, one of the outer leaves the handler
UploadFailed(r) ==
    /\ Turn(r) /\ req[r].ep = "upload" /\ req[r].pc \in {"failed", "failedOuter"}
    /\ \E o \in DbOutcome :
          LET encrypted == includes(req[r].error, UploadTexts.Marker)
              error == IF encrypted THEN UploadTexts.Encrypted ELSE UploadTexts.Failed
          IN  IF o = "throw"
              THEN /\ req' = [req EXCEPT ![r] =
                                IF req[r].pc = "failed"
                                THEN [@ EXCEPT !.pc = "failedOuter", !.error = UploadTexts.DbFailed,
                                               !.errs = @ \cup {"mark"}]
                                ELSE Unhandled(@, "mark")]
                   /\ UNCHANGED invoices
              ELSE /\ invoices' = updateInvoice(The(req[r].invoice),
                                     [status |-> "error", extractedData |-> ErrorData(error)])
                   /\ req' = [req EXCEPT ![r] =
                                [@ EXCEPT !.pc = "done",
                                          !.status = IF encrypted THEN 400 ELSE 500,
                                          !.body = Body("error", error),
                                          !.log = Append(@, Ev("write", "invoice.update", "error"))]]
    /\ UNCHANGED <<nextId, env>>
    /\ UploadUnchanged

(***************************************************************************)
(* The upload specification: both upload handlers over the seeded database  *)
(* and a log folder that is empty or holds the file of an earlier upload.   *)
(***************************************************************************)
InitUpload ==
    /\ users = {SeedUser}
    /\ chats = SeedChats
    /\ messages = SeedMessages
    /\ invoices = <<SeedInvoice>>
    /\ accounts = {}
    /\ searches = <<>>
    /\ req = [r \in 1..MaxReq |-> Idle]
    /\ nextId = 10
    /\ env \in {[logs |-> <<>>]} \cup {[logs |-> <<[by |-> 2, payment |-> p]>>] : p \in PaymentInfos}

NextUpload ==
    \E r \in 1..MaxReq :
        \/ UploadAuth(r) \/ UploadFindUser(r) \/ UploadCreateInvoice(r) \/ MockTimer(r)
        \/ UploadParse(r) \/ UploadReadReply(r) \/ UploadEmbed(r) \/ UploadUpdate(r)
        \/ UploadUpdateJson(r) \/ UploadFetchUpdated(r) \/ UploadFailed(r)

SpecUpload == InitUpload /\ [][NextUpload]_vars

(***************************************************************************)
(* Properties of the upload handlers.                                       *)
(***************************************************************************)
uploads(rq) == rq.ep \in {"upload", "mock"}

\* C4: an upload that has been answered and had created its Invoice row has
\* left the row processed or error, never processing.
C4_NeverLeftProcessing ==
    \A r \in Req :
       (uploads(req[r]) /\ req[r].pc = "done" /\ req[r].invoice # None) =>
          invoiceById(The(req[r].invoice)).status \in {"processed", "error"}

\* the parsing service reported the PDF of this upload as encrypted
reportedEncrypted(rq) ==
    /\ rq.ep = "upload" /\ rq.reply # None
    /\ includes(The(rq.reply).error, UploadTexts.Marker)

\* C5: an upload whose parsing service reported PDF_ENCRYPTED, by a non-OK
\* status or by the error member of a JSON body, and whose database calls all
\* succeeded, has set the row to error with a message containing "encrypted
\* or password-protected" and has answered 400.
C5_EncryptedIsReported ==
    \A r \in Req :
       (reportedEncrypted(req[r]) /\ req[r].pc = "done" /\ req[r].errs \subseteq {"parse"}) =>
          LET row == invoiceById(The(req[r].invoice))
          IN  /\ row.status = "error"
              /\ hasKey(row.extractedData, <<"e","r","r","o","r">>)
              /\ includes(get(row.extractedData, <<"e","r","r","o","r">>).v, <<"e","n","c","r","y","p","t","e","d"," ","o","r"," ","p","a","s","s","w","o","r","d","-","p","r","o","t","e","c","t","e","d">>)
              /\ req[r].status = 400

\* C6: an upload of a signed-in user who has a User row, with no file in the
\* form, is answered 400, creates no Invoice row and calls no service.
C6_NoFile ==
    /\ [](\A r \in Req :
            (uploads(req[r]) /\ req[r].file = None /\ req[r].user # None) =>
               /\ req[r].pc = "done" /\ req[r].status = 400
               /\ req[r].invoice = None
               /\ req[r].log = <<>>)
    /\ [][\A r \in Req :
            (uploads(req'[r]) /\ req'[r].file = None /\ req'[r] # req[r]) =>
               invoices' = invoices /\ env' = env]_vars

C6_Witness ==
    \E r \in Req :
       /\ req[r].ep = "upload" /\ req[r].file = None /\ req[r].user # None
       /\ req[r].status = 400

(***************************************************************************)
(* GET /api/invoices/dashboard (part_007).  Of the answer the model keeps   *)
(* the summary without its average, topVendors without the recent invoices  *)
(* of each vendor, and monthlySpend.                                        *)
(***************************************************************************)
\* part_007:170
amountFields == << <<"t","o","t","a","l","_","a","m","o","u","n","t">>, <<"t","o","t","a","l","A","m","o","u","n","t">>, <<"g","r","a","n","d","_","t","o","t","a","l">>, <<"g","r","a","n","d","T","o","t","a","l">>, <<"a","m","o","u","n","t">> >>

\* part_007:161-200: the first of the amount fields that is truthy and is a
\* number, or a string that parseFloat reads once [₹$€£,\s] are dropped; null
\* (None) when there is none
RECURSIVE extractAmountFrom(_, _)
extractAmountFrom(extractedData, k) ==
    IF k > Len(amountFields) THEN None
    ELSE IF ~truthy(extractedData, amountFields[k]) THEN extractAmountFrom(extractedData, k + 1)
    ELSE LET amount == get(extractedData, amountFields[k])
             cleanAmount == dropChars(amount.v, {"<20B9>", "$", "<20AC>", "<00A3>", ",", " ", "\n", "\t"})
         IN  IF amount.t = "number" THEN Some(amount.v)
             ELSE IF parseFloat(cleanAmount) = None THEN extractAmountFrom(extractedData, k + 1)
             ELSE parseFloat(cleanAmount)

extractAmount(extractedData) == extractAmountFrom(extractedData, 1)

\* part_005:23-26: prisma.invoice.findMany({ userId })
invoicesOf(userId) == SelectSeq(invoices, LAMBDA inv : inv.userId = userId)

\* the summary taken over every invoice of the user, whatever its status
anyStatusInvoicesOf(userId) == SelectSeq(invoices, LAMBDA inv : inv.userId = userId)

\* orderBy: { createdAt: 'desc' }
RECURSIVE orderByCreatedAtDesc(_)
orderByCreatedAtDesc(rows) ==
    IF rows = <<>> THEN <<>>
    ELSE LET sorted == orderByCreatedAtDesc(SubSeq(rows, 1, Len(rows) - 1))
             row == rows[Len(rows)]
             k == Cardinality({i \in 1..Len(sorted) : sorted[i].createdAt >= row.createdAt})
         IN  SubSeq(sorted, 1, k) \o <<row>> \o SubSeq(sorted, k + 1, Len(sorted))

\* part_007:24-30: prisma.invoice.findMany({ userId, status: "processed" }),
\* the newest first
processedInvoicesOf(userId) ==
    orderByCreatedAtDesc(
        SelectSeq(invoices, LAMBDA inv : inv.userId = userId /\ inv.status = "processed"))

\* extractAmount(invoice.extractedData) || 0, a JavaScript number
amountOf(invoice) ==
    LET amount == extractAmount(invoice.extractedData)
    IN  IF amount = None THEN Zero ELSE toDouble(The(amount))

\* part_007:46-50: invoices.reduce((sum, invoice) => sum + (extractAmount(...) || 0), 0)
RECURSIVE totalSpend(_)
totalSpend(invs) ==
    IF invs = <<>> THEN Zero
    ELSE plus(totalSpend(SubSeq(invs, 1, Len(invs) - 1)), amountOf(invs[Len(invs)]))

\* part_007:202-205
vendorFields == << <<"v","e","n","d","o","r","_","n","a","m","e">>, <<"v","e","n","d","o","r","N","a","m","e">>, <<"v","e","n","d","o","r">> >>

extractVendorName(extractedData) ==
    LET found == {k \in 1..Len(vendorFields) : truthy(extractedData, vendorFields[k])}
        first == CHOOSE k \in found : \A j \in found : k <= j
    IN  IF found = {} THEN None ELSE Some(get(extractedData, vendorFields[first]).v)

DashTexts ==
    [ \* part_007:57
      UnknownVendor |-> <<"U","n","k","n","o","w","n"," ","V","e","n","d","o","r">>,
      \* part_007:142
      NoVendors |-> <<"N","o"," ","v","e","n","d","o","r","s"," ","f","o","u","n","d">> ]

\* part_007:55-78: the Map vendorSpend, its entries in the order of insertion
RECURSIVE vendorSpend(_)
vendorSpend(invs) ==
    IF invs = <<>> THEN <<>>
    ELSE LET map == vendorSpend(SubSeq(invs, 1, Len(invs) - 1))
             invoice == invs[Len(invs)]
             name == extractVendorName(invoice.extractedData)
             vendorName == IF name = None THEN DashTexts.UnknownVendor ELSE The(name)
             at == {i \in 1..Len(map) : map[i].vendor = vendorName}
         IN  IF at = {}
             THEN Append(map, [vendor |-> vendorName, total |-> plus(Zero, amountOf(invoice)),
                               count |-> 1])
             ELSE [map EXCEPT ![The(at)] =
                     [@ EXCEPT !.total = plus(@, amountOf(invoice)), !.count = @ + 1]]

\* part_007:88: sort((a, b) => b.totalSpend - a.totalSpend), a stable sort
RECURSIVE sortBySpend(_)
sortBySpend(vendors) ==
    IF vendors = <<>> THEN <<>>
    ELSE LET sorted == sortBySpend(SubSeq(vendors, 1, Len(vendors) - 1))
             v == vendors[Len(vendors)]
             k == Cardinality({i \in 1..Len(sorted) : ~less(sorted[i].totalSpend, v.totalSpend)})
         IN  SubSeq(sorted, 1, k) \o <<v>> \o SubSeq(sorted, k + 1, Len(sorted))

\* part_007:89: slice(0, 10)
TopCut == 10

\* part_007:81-89
topVendors(map) ==
    slice0(sortBySpend([i \in 1..Len(map) |->
                          [vendor |-> map[i].vendor, totalSpend |-> map[i].total,
                           invoiceCount |-> map[i].count]]),
           TopCut)

\* the calendar of the clock: so many rows are created a month, from January
\* 2024 on
TicksPerMonth == 2
getFullYear(t) == 2024 + (t \div TicksPerMonth) \div 12
getMonth(t) == (t \div TicksPerMonth) % 12

padStart(s, n, c) == [i \in 1..(IF Len(s) < n THEN n - Len(s) ELSE 0) |-> c] \o s

\* part_007:95
monthKey(date) ==
    decimal(getFullYear(date)) \o <<"-">> \o padStart(decimal(getMonth(date) + 1), 2, "0")

\* part_007:92-100: the Map monthlySpend, its entries in the order of insertion
RECURSIVE monthlySpend(_)
monthlySpend(invs) ==
    IF invs = <<>> THEN <<>>
    ELSE LET map == monthlySpend(SubSeq(invs, 1, Len(invs) - 1))
             invoice == invs[Len(invs)]
             at == {i \in 1..Len(map) : map[i].k = monthKey(invoice.createdAt)}
         IN  IF at = {}
             THEN Append(map, [k |-> monthKey(invoice.createdAt),
                               v |-> plus(Zero, amountOf(invoice))])
             ELSE [map EXCEPT ![The(at)] = [@ EXCEPT !.v = plus(@, amountOf(invoice))]]

\* part_007:137-150
dashboardData(invs) ==
    LET top == topVendors(vendorSpend(invs))
    IN  [totalInvoices |-> Len(invs),
         totalSpend |-> totalSpend(invs),
         topVendor |-> IF Len(top) > 0 THEN top[1].vendor ELSE DashTexts.NoVendors,
         topVendorSpend |-> IF Len(top) > 0 THEN top[1].totalSpend ELSE Zero,
         topVendors |-> top,
         monthlySpend |-> monthlySpend(invs)]

DashRequest(s) ==
    [ep |-> "dashboard", pc |-> "findUser", session |-> s, status |-> 0, log |-> <<>>,
     errs |-> {}, user |-> None, vendorSpend |-> <<>>, body |-> None]

DashUnchanged == UNCHANGED <<users, chats, messages, invoices, accounts, searches, nextId, env>>

\* part_007:8-11: auth()
DashAuth(r) ==
    /\ Accept(r)
    /\ \E s \in Sessions :
          req' = [req EXCEPT ![r] =
                    IF Unauthorized(s) THEN Respond(DashRequest(s), 401) ELSE DashRequest(s)]
    /\ DashUnchanged

\* part_007:15-21: prisma.user.findUnique; a failure is caught at 155
DashFindUser(r) ==
    /\ At(r, "dashboard", "findUser")
    /\ \E o \in DbOutcome :
          req' = [req EXCEPT ![r] =
                    IF o = "throw" THEN Caught(@, "findUser", 500)
                    ELSE LET found == UserByEmail(req[r].session.email)
                         IN  IF found = {} THEN Respond(@, 404)
                             ELSE [@ EXCEPT !.pc = "findInvoices", !.user = Some(The(found).id)]]
    /\ DashUnchanged

\* part_007:24-153: prisma.invoice.findMany and the summary computed from its rows
DashSummary(r) ==
    /\ At(r, "dashboard", "findInvoices")
    /\ \E o \in DbOutcome :
          req' = [req EXCEPT ![r] =
                    IF o = "throw" THEN Caught(@, "findInvoices", 500)
                    ELSE LET found == processedInvoicesOf(The(req[r].user))
                         IN  [@ EXCEPT !.pc = "done", !.status = 200,
                                       !.vendorSpend = vendorSpend(found),
                                       !.body = Some(dashboardData(found))]]
    /\ DashUnchanged

(***************************************************************************)
(* The dashboard specification: the handler over every table of at most     *)
(* MaxInvoices invoices drawn from the rows below.                          *)
(***************************************************************************)
MaxInvoices == 3

\* the row POST /api/chat creates for a signed-in user without one
OtherUser == NewUser(9, OtherEmail)

AmountData(field, value) == << [k |-> <<"v","e","n","d","o","r","_","n","a","m","e">>, v |-> Str(<<"S","a","m","p","l","e"," ","V","e","n","d","o","r">>)], [k |-> field, v |-> value] >>

\* what uploads leave in extractedData: the amounts of part_007:177 and of
\* part_005:95, the fallback of part_006:161, a number, a text that starts
\* with digits, an unreadable total_amount next to a readable amount, none
DashData ==
    { AmountData(<<"t","o","t","a","l","_","a","m","o","u","n","t">>, Str(<<"<20B9>","7",",","4","6","8",".","0","0">>)),
      AmountData(<<"t","o","t","a","l","_","a","m","o","u","n","t">>, Str(<<"$","1",",","2","5","0",".","0","0">>)),
      AmountData(<<"t","o","t","a","l","_","a","m","o","u","n","t">>, Str(UploadTexts.Complete)),
      AmountData(<<"g","r","a","n","d","T","o","t","a","l">>, Num(1000)),
      AmountData(<<"a","m","o","u","n","t">>, Str(<<"1","2"," ","U","S","D">>)),
      ProcessedData(UploadTexts.Complete) \o AmountData(<<"a","m","o","u","n","t">>, Str(<<"1","0",".","0","0">>)),
      UploadedData }

\* the rows of the table: those of the demo user in each status, and processed
\* rows of the other user
DashRows ==
    {[userId |-> 1, status |-> "processed", data |-> d] : d \in DashData}
    \cup {[userId |-> 1, status |-> st, data |-> AmountData(<<"t","o","t","a","l","_","a","m","o","u","n","t">>, Str(<<"$","1",",","2","5","0",".","0","0">>))] :
             st \in {"processing", "error"}}
    \cup {[userId |-> 9, status |-> "processed", data |-> AmountData(<<"t","o","t","a","l","_","a","m","o","u","n","t">>, Str(<<"<20B9>","7",",","4","6","8",".","0","0">>))]}

InitDash ==
    /\ users \in {{SeedUser}, {SeedUser, OtherUser}}
    /\ chats = {}
    /\ messages = <<>>
    /\ \E n \in 0..MaxInvoices :
          \E rows \in [1..n -> DashRows] :
             /\ \A i \in 1..n : \E u \in users : u.id = rows[i].userId
             /\ invoices = [i \in 1..n |->
                              InvoiceRow(9 + i, rows[i].userId, <<"a",".","p","d","f">>, rows[i].status,
                                         rows[i].data, None)]
    /\ accounts = {}
    /\ searches = <<>>
    /\ req = [r \in 1..MaxReq |-> Idle]
    /\ nextId = 10 + MaxInvoices
    /\ env = [logs |-> <<>>]

NextDash == \E r \in 1..MaxReq : DashAuth(r) \/ DashFindUser(r) \/ DashSummary(r)

SpecDash == InitDash /\ [][NextDash]_vars

(***************************************************************************)
(* Properties of the dashboard.                                             *)
(***************************************************************************)
\* the sum of the numbers f holds at the places S, added from the last place
\* down to the first
RECURSIVE sumOver(_, _)
sumOver(S, f) ==
    IF S = {} THEN Zero
    ELSE LET x == CHOOSE y \in S : \A z \in S : y <= z IN plus(sumOver(S \ {x}, f), f[x])

\* C7: the summary of a dashboard answer counts exactly the requesting user's
\* processed invoices, and its totalSpend is the sum of the amounts of those
\* of them whose amount can be read, added from the newest to the oldest.
C7_Totals ==
    \A r \in Req :
       (req[r].ep = "dashboard" /\ req[r].status = 200) =>
          LET me == CHOOSE u \in users : u.email = req[r].session.email
              mine == {i \in 1..Len(invoices) :
                          invoices[i].userId = me.id /\ invoices[i].status = "processed"}
              readable == {i \in mine : extractAmount(invoices[i].extractedData) # None}
              amount == [i \in readable |-> toDouble(The(extractAmount(invoices[i].extractedData)))]
          IN  /\ The(req[r].body).totalInvoices = Cardinality(mine)
              /\ The(req[r].body).totalSpend = sumOver(readable, amount)

C7_Witness ==
    \E r \in Req :
       /\ req[r].ep = "dashboard" /\ req[r].status = 200
       /\ The(req[r].body).totalInvoices = 3
       /\ The(req[r].body).totalSpend = toDouble(746800 + 1000)
       /\ Len(invoices) = 3
       /\ \E i \in 1..3 : extractAmount(invoices[i].extractedData) = None

(***************************************************************************)
(* The Credentials provider's authorize (part_001:31-57).                   *)
(***************************************************************************)
\* the credentials of a login: the email and the password of the form
Credentials == {[email |-> e, password |-> p] :
                   e \in {DemoEmail, OtherEmail}, p \in {DemoPassword, "hunter2", ""}}

LoginRequest(creds) ==
    [ep |-> "login", pc |-> "findUser", creds |-> creds, log |-> <<>>, errs |-> {},
     user |-> None, result |-> None]

LoginUnchanged ==
    UNCHANGED <<users, chats, messages, invoices, accounts, searches, nextId, env>>

\* Authorize without the demo pair's shortcut
AuthorizeByDatabase(r) ==
    /\ Accept(r)
    /\ \E creds \in Credentials : req' = [req EXCEPT ![r] = LoginRequest(creds)]
    /\ LoginUnchanged

\* part_001:32-44: the demo pair is answered with the demo user at once
Authorize(r) ==
    /\ Accept(r)
    /\ \E creds \in Credentials :
          req' = [req EXCEPT ![r] =
                    IF creds.email = DemoEmail /\ creds.password = DemoPassword
                    THEN [LoginRequest(creds) EXCEPT
                             !.pc = "done",
                             !.result = Some([id |-> "demo-user-id", email |-> DemoEmail])]
                    ELSE LoginRequest(creds)]
    /\ LoginUnchanged

\* part_001:47-50: prisma.user.findUnique; null without a row or with a falsy
\* passwordHash (null or ""); a failure is caught at 53 and answered null
AuthorizeFindUser(r) ==
    /\ At(r, "login", "findUser")
    /\ \E o \in DbOutcome :
          req' = [req EXCEPT ![r] =
                    IF o = "throw"
                    THEN [@ EXCEPT !.pc = "done", !.errs = @ \cup {"findUser"},
                                   !.log = Append(@, Ev("read", "user.findUnique", Null))]
                    ELSE LET found == UserByEmail(req[r].creds.email)
                         IN  IF found = {} \/ The(found).passwordHash \in {None, Some(<<>>)}
                             THEN [@ EXCEPT !.pc = "done",
                                            !.log = Append(@, Ev("read", "user.findUnique", Null))]
                             ELSE [@ EXCEPT !.pc = "compare", !.user = Some(The(found).id),
                                            !.log = Append(@, Ev("read", "user.findUnique", Null))]]
    /\ LoginUnchanged

\* part_001:51-52: bcrypt.compare against the hash that was read
AuthorizeCompare(r) ==
    /\ At(r, "login", "compare")
    /\ LET user == CHOOSE u \in users : u.id = The(req[r].user)
       IN  req' = [req EXCEPT ![r] =
                     IF bcryptCompare(req[r].creds.password, The(user.passwordHash))
                     THEN [@ EXCEPT !.pc = "done",
                                    !.result = Some([id |-> user.id, email |-> user.email])]
                     ELSE [@ EXCEPT !.pc = "done"]]
    /\ LoginUnchanged

(***************************************************************************)
(* The login specification: authorize over the User tables the seed script, *)
(* the chat endpoints and an OAuth sign-in leave.                           *)
(***************************************************************************)
\* the row of a user who signed in with Google only: no password hash
OAuthUser == [id |-> 9, email |-> OtherEmail, passwordHash |-> None]

\* the row of a user with a password of their own
PasswordUser == [id |-> 9, email |-> OtherEmail, passwordHash |-> Some(bcryptHash("hunter2"))]

InitLogin ==
    /\ users \in {{}, {SeedUser}, {OtherUser}, {OAuthUser}, {SeedUser, OtherUser},
                  {SeedUser, OAuthUser}, {SeedUser, PasswordUser},
                  {NewUser(1, DemoEmail)}}
    /\ chats = {}
    /\ messages = <<>>
    /\ invoices = <<>>
    /\ accounts = {}
    /\ searches = <<>>
    /\ req = [r \in 1..MaxReq |-> Idle]
    /\ nextId = 10
    /\ env = [logs |-> <<>>]

NextLogin == \E r \in 1..MaxReq : Authorize(r) \/ AuthorizeFindUser(r) \/ AuthorizeCompare(r)

SpecLogin == InitLogin /\ [][NextLogin]_vars

(***************************************************************************)
(* Properties of authorize.                                                 *)
(***************************************************************************)
\* C8: authorize answers the demo pair with the demo user without reading
\* the database, whatever rows it holds; it answers null to every other login
\* whose User row has no password hash or an empty one, as the rows have that
\* the chat endpoints create.
C8_Authorize ==
    \A r \in Req :
       (req[r].ep = "login" /\ req[r].pc = "done") =>
          LET creds == req[r].creds
              demo == creds.email = DemoEmail /\ creds.password = DemoPassword
              row == UserByEmail(creds.email)
          IN  /\ demo => /\ req[r].result # None
                         /\ The(req[r].result).email = DemoEmail
                         /\ req[r].log = <<>>
              /\ (~demo /\ row # {} /\ The(row).passwordHash \in {None, Some(<<>>)}) =>
                    req[r].result = None

C8_Witness ==
    \E r \in Req :
       /\ req[r].ep = "login" /\ req[r].pc = "done"
       /\ req[r].creds.email = OtherEmail
       /\ users = {SeedUser, NewUser(9, OtherEmail)}
       /\ req[r].log # <<>> /\ req[r].errs = {}
       /\ req[r].result = None

(***************************************************************************)
(* GET /api/chats (part_003) and POST /api/chats/demo (demo/route.ts).      *)
(***************************************************************************)
ChatsRequest(ep, s) ==
    [ep |-> ep, pc |-> "findUser", session |-> s, status |-> 0, log |-> <<>>, errs |-> {},
     user |-> None, k |-> 0, body |-> None]

ChatsUnchanged == UNCHANGED <<invoices, accounts, searches, env>>

\* part_003:7-10: auth()
ListChatsAuth(r) ==
    /\ Accept(r)
    /\ \E s \in Sessions :
          req' = [req EXCEPT ![r] =
                    IF Unauthorized(s) THEN Respond(ChatsRequest("chats", s), 401)
                    ELSE ChatsRequest("chats", s)]
    /\ UNCHANGED <<users, chats, messages, nextId>>
    /\ ChatsUnchanged

\* demo/route.ts:7-15: auth(), then 403 for every user but the demo user
DemoAuth(r) ==
    /\ Accept(r)
    /\ \E s \in Sessions :
          req' = [req EXCEPT ![r] =
                    IF Unauthorized(s) THEN Respond(ChatsRequest("demo", s), 401)
                    ELSE IF s.email # "demo@chat.app" THEN Respond(ChatsRequest("demo", s), 403)
                    ELSE ChatsRequest("demo", s)]
    /\ UNCHANGED <<users, chats, messages, nextId>>
    /\ ChatsUnchanged

\* part_003:13-14 and demo/route.ts:18-19: prisma.user.findUnique; a failure
\* is caught at the end of the handler
ChatsFindUser(r) ==
    /\ Turn(r) /\ req[r].ep \in {"chats", "demo"} /\ req[r].pc = "findUser"
    /\ \E o \in DbOutcome :
          req' = [req EXCEPT ![r] =
                    IF o = "throw" THEN Caught(@, "findUser", 500)
                    ELSE LET found == UserByEmail(req[r].session.email)
                         IN  IF found = {} THEN [@ EXCEPT !.pc = "createUser"]
                             ELSE [@ EXCEPT !.pc = "findChats", !.user = Some(The(found).id)]]
    /\ UNCHANGED <<users, chats, messages, nextId>>
    /\ ChatsUnchanged

\* part_003:16-22 and demo/route.ts:20-26: prisma.user.create
ChatsCreateUser(r) ==
    /\ Turn(r) /\ req[r].ep \in {"chats", "demo"} /\ req[r].pc = "createUser"
    /\ \E o \in DbOutcome :
          IF o = "throw" \/ ~EmailFree(req[r].session.email)
          THEN /\ req' = [req EXCEPT ![r] = Caught(@, "createUser", 500)]
               /\ UNCHANGED <<users, nextId>>
          ELSE /\ users' = users \cup {NewUser(nextId, req[r].session.email)}
               /\ nextId' = nextId + 1
               /\ req' = [req EXCEPT ![r] =
                            [@ EXCEPT !.pc = "findChats", !.user = Some(nextId),
                                      !.log = Append(@, Ev("write", "user.create", nextId))]]
    /\ UNCHANGED <<chats, messages>>
    /\ ChatsUnchanged

\* the sessions of a user with their messages, as findMany includes them
chatsOf(userId) ==
    {[id |-> c.id, title |-> c.title,
      messages |-> SelectSeq(messages, LAMBDA m : m.chatId = c.id)] :
        c \in {d \in chats : d.userId = userId}}

\* part_003:25-31: prisma.chatSession.findMany with the messages;
\* demo/route.ts:30-41: the same without them, answered when there are any
ChatsFind(r) ==
    /\ Turn(r) /\ req[r].ep \in {"chats", "demo"} /\ req[r].pc = "findChats"
    /\ \E o \in DbOutcome :
          req' = [req EXCEPT ![r] =
                    IF o = "throw" THEN Caught(@, "findChats", 500)
                    ELSE LET found == chatsOf(The(req[r].user))
                         IN  IF req[r].ep = "chats"
                             THEN [@ EXCEPT !.pc = "done", !.status = 200, !.body = Some(found)]
                             ELSE IF found # {}
                             THEN [@ EXCEPT !.pc = "done", !.status = 200,
                                            !.body = Some({[c EXCEPT !.messages = <<>>] : c \in found})]
                             ELSE [@ EXCEPT !.pc = "createChats", !.k = 1]]
    /\ UNCHANGED <<users, chats, messages, nextId>>
    /\ ChatsUnchanged

\* demo/route.ts:44-118: the three sessions and their messages, in the order created
DemoChats ==
    <<
      \* demo/route.ts:47
      [title |-> <<"G","e","t","t","i","n","g"," ","S","t","a","r","t","e","d">>,
       messages |-> <<
         [role |-> "user", content |->
            <<"H","e","l","l","o","!"," ","C","a","n"," ","y","o","u"," ","h","e","l","p"," ","m",
             "e","?">>],
         [role |-> "assistant", content |->
            <<"H","e","l","l","o","!"," ","I","'","m"," ","y","o","u","r"," ","A","I"," ","a","s",
             "s","i","s","t","a","n","t","."," ","I","'","m"," ","h","e","r","e"," ","t","o"," ",
             "h","e","l","p"," ","y","o","u"," ","w","i","t","h"," ","a","n","y"," ","q","u","e",
             "s","t","i","o","n","s"," ","o","r"," ","t","a","s","k","s"," ","y","o","u"," ","m",
             "i","g","h","t"," ","h","a","v","e","."," ","W","h","a","t"," ","w","o","u","l","d",
             " ","y","o","u"," ","l","i","k","e"," ","t","o"," ","k","n","o","w"," ","a","b","o",
             "u","t","?">>],
         [role |-> "user", content |->
            <<"W","h","a","t"," ","c","a","n"," ","y","o","u"," ","d","o","?">>],
         [role |-> "assistant", content |->
            <<"I"," ","c","a","n"," ","h","e","l","p"," ","y","o","u"," ","w","i","t","h"," ","a",
             " ","w","i","d","e"," ","v","a","r","i","e","t","y"," ","o","f"," ","t","a","s","k",
             "s","!"," ","I"," ","c","a","n"," ","a","n","s","w","e","r"," ","q","u","e","s","t",
             "i","o","n","s",","," ","p","r","o","v","i","d","e"," ","i","n","f","o","r","m","a",
             "t","i","o","n",","," ","h","e","l","p"," ","w","i","t","h"," ","c","o","d","i","n",
             "g",","," ","e","x","p","l","a","i","n"," ","c","o","n","c","e","p","t","s",","," ",
             "a","n","d"," ","m","u","c","h"," ","m","o","r","e","."," ","I","'","m"," ","d","e",
             "s","i","g","n","e","d"," ","t","o"," ","b","e"," ","h","e","l","p","f","u","l"," ",
             "a","n","d"," ","i","n","f","o","r","m","a","t","i","v","e",".">>]
       >>],
      \* demo/route.ts:79
      [title |-> <<"P","r","o","g","r","a","m","m","i","n","g"," ","H","e","l","p">>,
       messages |-> <<
         [role |-> "user", content |->
            <<"C","a","n"," ","y","o","u"," ","h","e","l","p"," ","m","e"," ","w","i","t","h"," ",
             "J","a","v","a","S","c","r","i","p","t","?">>],
         [role |-> "assistant", content |->
            <<"I","'","d"," ","b","e"," ","h","a","p","p","y"," ","t","o"," ","h","e","l","p"," ",
             "y","o","u"," ","w","i","t","h"," ","J","a","v","a","S","c","r","i","p","t","!"," ",
             "I"," ","c","a","n"," ","a","s","s","i","s","t"," ","w","i","t","h"," ","s","y","n",
             "t","a","x",","," ","c","o","n","c","e","p","t","s",","," ","d","e","b","u","g","g",
             "i","n","g",","," ","b","e","s","t"," ","p","r","a","c","t","i","c","e","s",","," ",
             "a","n","d"," ","m","o","r","e","."," ","W","h","a","t"," ","s","p","e","c","i","f",
             "i","c"," ","J","a","v","a","S","c","r","i","p","t"," ","t","o","p","i","c"," ","w",
             "o","u","l","d"," ","y","o","u"," ","l","i","k","e"," ","t","o"," ","e","x","p","l",
             "o","r","e","?">>]
       >>],
      \* demo/route.ts:101
      [title |-> <<"Q","u","i","c","k"," ","Q","u","e","s","t","i","o","n">>,
       messages |-> <<
         [role |-> "user", content |->
            <<"T","e","l","l"," ","m","e"," ","a"," ","j","o","k","e">>],
         [role |-> "assistant", content |->
            <<"W","h","y"," ","d","o","n","'","t"," ","s","c","i","e","n","t","i","s","t","s"," ",
             "t","r","u","s","t"," ","a","t","o","m","s","?"," ","B","e","c","a","u","s","e"," ",
             "t","h","e","y"," ","m","a","k","e"," ","u","p"," ","e","v","e","r","y","t","h","i",
             "n","g","!"," ","<00F0>","<0178>","<02DC>","<201E>">>]
       >>]
    >>

\* demo/route.ts:44-122: the k-th prisma.chatSession.create with its nested
\* messages, one statement each; after the third the answer
DemoCreateChat(r) ==
    /\ At(r, "demo", "createChats")
    /\ \E o \in DbOutcome :
          LET k == req[r].k
              n == Len(DemoChats[k].messages)
          IN  IF o = "throw"
              THEN /\ req' = [req EXCEPT ![r] = Caught(@, "createChats", 500)]
                   /\ UNCHANGED <<chats, messages, nextId>>
              ELSE /\ chats' = chats \cup {[id |-> nextId, userId |-> The(req[r].user),
                                            title |-> DemoChats[k].title]}
                   /\ messages' = messages \o
                         [j \in 1..n |-> [id |-> nextId + j, chatId |-> nextId,
                                          role |-> DemoChats[k].messages[j].role,
                                          content |-> DemoChats[k].messages[j].content]]
                   /\ nextId' = nextId + n + 1
                   /\ req' = [req EXCEPT ![r] =
                                IF k < Len(DemoChats)
                                THEN [@ EXCEPT !.k = k + 1,
                                               !.log = Append(@, Ev("write", "chatSession.create", nextId))]
                                ELSE [@ EXCEPT !.pc = "done", !.status = 200,
                                               !.log = Append(@, Ev("write", "chatSession.create", nextId))]]
    /\ UNCHANGED users
    /\ ChatsUnchanged

(***************************************************************************)
(* GET /api/invoices (part_005:6-43), GET /api/invoices/search              *)
(* (search/route.ts), POST /api/invoices/:id/export (part_004:181-233) and  *)
(* GET /api/invoices/:id/download (part_004:7-175).                         *)
(***************************************************************************)
InvoicesRequest(ep, s) ==
    [ep |-> ep, pc |-> "findUser", session |-> s, status |-> 0, log |-> <<>>, errs |-> {},
     user |-> None, id |-> None, query |-> <<>>, type |-> None, results |-> {}, body |-> None]

InvoicesUnchanged == UNCHANGED <<users, chats, messages, invoices, accounts, nextId, env>>

\* part_005:7-10: auth()
ListInvoicesAuth(r) ==
    /\ Accept(r)
    /\ \E s \in Sessions :
          req' = [req EXCEPT ![r] =
                    IF Unauthorized(s) THEN Respond(InvoicesRequest("invoices", s), 401)
                    ELSE InvoicesRequest("invoices", s)]
    /\ UNCHANGED searches
    /\ InvoicesUnchanged

\* the q of a search: none, one that a stored text holds, one that none holds
Queries == { <<>>, <<"s","a","m","p","l","e">>, <<"z","z","z">> }

\* search/route.ts:6-13: auth(), then the q of the URL
SearchAuth(r) ==
    /\ Accept(r)
    /\ \E s \in Sessions, q \in Queries :
          req' = [req EXCEPT ![r] =
                    IF Unauthorized(s) THEN Respond(InvoicesRequest("search", s), 401)
                    ELSE [InvoicesRequest("search", s) EXCEPT !.query = q]]
    /\ UNCHANGED searches
    /\ InvoicesUnchanged

\* the id of the path: that of a row, or one that no row has
InvoiceIds == {invoices[i].id : i \in 1..Len(invoices)} \cup {0}

\* part_004:185-190: auth(), then the id of the path
ExportAuth(r) ==
    /\ Accept(r)
    /\ \E s \in Sessions, id \in InvoiceIds :
          req' = [req EXCEPT ![r] =
                    IF Unauthorized(s) THEN Respond(InvoicesRequest("export", s), 401)
                    ELSE [InvoicesRequest("export", s) EXCEPT !.id = Some(id)]]
    /\ UNCHANGED searches
    /\ InvoicesUnchanged

\* part_004:11-14: auth(); the id of the path and the type of the URL
DownloadAuth(r) ==
    /\ Accept(r)
    /\ \E s \in Sessions, id \in InvoiceIds,
          type \in {None, Some("original"), Some("processed"), Some("pdf")} :
          req' = [req EXCEPT ![r] =
                    IF Unauthorized(s) THEN Respond(InvoicesRequest("download", s), 401)
                    ELSE [InvoicesRequest("download", s) EXCEPT !.id = Some(id), !.type = type]]
    /\ UNCHANGED searches
    /\ InvoicesUnchanged

\* part_005:14-20, search/route.ts:16-22, part_004:18-24 and 194-200:
\* prisma.user.findUnique, 404 without a row; a failure is caught at the end
\* of the handler
InvoicesFindUser(r) ==
    /\ Turn(r) /\ req[r].ep \in {"invoices", "search", "export", "download"}
    /\ req[r].pc = "findUser"
    /\ \E o \in DbOutcome :
          req' = [req EXCEPT ![r] =
                    IF o = "throw" THEN Caught(@, "findUser", 500)
                    ELSE LET found == UserByEmail(req[r].session.email)
                         IN  IF found = {} THEN Respond(@, 404)
                             ELSE [@ EXCEPT !.pc = "find", !.user = Some(The(found).id)]]
    /\ UNCHANGED searches
    /\ InvoicesUnchanged

\* part_005:23-38: prisma.invoice.findMany({ userId }) and the answer
ListInvoices(r) ==
    /\ At(r, "invoices", "find")
    /\ \E o \in DbOutcome :
          req' = [req EXCEPT ![r] =
                    IF o = "throw" THEN Caught(@, "find", 500)
                    ELSE [@ EXCEPT !.pc = "done", !.status = 200,
                                   !.body = Some(invoicesOf(The(req[r].user)))]]
    /\ UNCHANGED searches
    /\ InvoicesUnchanged

\* search/route.ts:25-108: prisma.invoice.findMany of the processed rows; with
\* a q, the rows whose score against a random vector passes 0.1: any of those
\* stored with a vector; without one, all rows.  The model keeps the ids of
\* the result, not their order.
SearchFind(r) ==
    /\ At(r, "search", "find")
    /\ \E o \in DbOutcome :
          IF o = "throw"
          THEN req' = [req EXCEPT ![r] = Caught(@, "find", 500)]
          ELSE LET found == processedInvoicesOf(The(req[r].user))
                   all == {found[i].id : i \in 1..Len(found)}
                   scored == {found[i].id : i \in {j \in 1..Len(found) : found[j].embeddings # None}}
                   blank == dropChars(req[r].query, {" ", "\n", "\t"}) = <<>>
               IN  \E results \in (IF blank THEN {all} ELSE SUBSET scored) :
                      req' = [req EXCEPT ![r] = [@ EXCEPT !.pc = "log", !.results = results]]
    /\ UNCHANGED searches
    /\ InvoicesUnchanged

\* search/route.ts:120-128: prisma.invoiceSearch.create, then the answer
SearchLog(r) ==
    /\ At(r, "search", "log")
    /\ \E o \in DbOutcome :
          IF o = "throw"
          THEN /\ req' = [req EXCEPT ![r] = Caught(@, "log", 500)]
               /\ UNCHANGED <<searches, nextId>>
          ELSE /\ searches' = Append(searches, [id |-> nextId, userId |-> The(req[r].user),
                                                query |-> req[r].query,
                                                results |-> req[r].results])
               /\ nextId' = nextId + 1
               /\ req' = [req EXCEPT ![r] =
                            [@ EXCEPT !.pc = "done", !.status = 200, !.body = Some(req[r].results),
                                      !.log = Append(@, Ev("write", "invoiceSearch.create", nextId))]]
    /\ UNCHANGED <<users, chats, messages, invoices, accounts, env>>

\* String.prototype.replace(sub, '') of the first occurrence
replaceFirst(s, sub) ==
    IF ~includes(s, sub) THEN s
    ELSE LET i == CHOOSE a \in 0..(Len(s) - Len(sub)) :
                     /\ SubSeq(s, a + 1, a + Len(sub)) = sub
                     /\ \A b \in 0..(a - 1) : SubSeq(s, b + 1, b + Len(sub)) # sub
         IN  SubSeq(s, 1, i) \o SubSeq(s, i + Len(sub) + 1, Len(s))

endsWith(s, sub) == Len(sub) <= Len(s) /\ SubSeq(s, Len(s) - Len(sub) + 1, Len(s)) = sub

\* part_004:77-91: the file of invoice-service/originals that serves a
\* filename: one of that name, else one that holds the name without its
\* ".pdf", else one that ends with the name
originalOf(files, filename) ==
    LET first(P(_)) == IF \E i \in 1..Len(files) : P(files[i])
                       THEN Some(files[CHOOSE i \in 1..Len(files) :
                                          P(files[i]) /\ \A j \in 1..(i - 1) : ~P(files[j])])
                       ELSE None
        exact(file) == file = filename
        holds(file) == includes(file, replaceFirst(filename, <<".","p","d","f">>))
        ends(file) == endsWith(file, filename)
    IN  IF first(exact) # None THEN first(exact)
        ELSE IF first(holds) # None THEN first(holds)
        ELSE first(ends)

\* part_004:203-228: prisma.invoice.findFirst({ id, userId }) and the mock answer
ExportFindInvoice(r) ==
    /\ At(r, "export", "find")
    /\ \E o \in DbOutcome :
          req' = [req EXCEPT ![r] =
                    IF o = "throw" THEN Caught(@, "find", 500)
                    ELSE LET found == SelectSeq(invoicesOf(The(req[r].user)),
                                                LAMBDA inv : inv.id = The(req[r].id))
                         IN  IF found = <<>> THEN Respond(@, 404)
                             ELSE [@ EXCEPT !.pc = "done", !.status = 200,
                                            !.body = Some(found[1].id)]]
    /\ UNCHANGED searches
    /\ InvoicesUnchanged

\* part_004:33-169: prisma.invoice.findUnique({ id, userId }); with the row,
\* the type is checked and the file is read from the disk: the original by
\* its name, the processed one from the one path every invoice shares
DownloadFindInvoice(r) ==
    /\ At(r, "download", "find")
    /\ \E o \in DbOutcome, disk \in {"ok", "throw"} :
          req' = [req EXCEPT ![r] =
                    IF o = "throw" THEN Caught(@, "find", 500)
                    ELSE LET found == SelectSeq(invoicesOf(The(req[r].user)),
                                                LAMBDA inv : inv.id = The(req[r].id))
                             type == req[r].type
                         IN  IF found = <<>> THEN [@ EXCEPT !.pc = "count"]
                             ELSE IF type \notin {Some("original"), Some("processed")}
                             THEN Respond(@, 400)
                             ELSE IF disk = "throw" THEN Caught(@, "disk", 500)
                             ELSE IF type = Some("original")
                             THEN LET file == originalOf(env.originals, found[1].filename)
                                  IN  IF file = None THEN Respond(@, 404)
                                      ELSE [@ EXCEPT !.pc = "done", !.status = 200,
                                                     !.body = Some([file |-> The(file)])]
                             ELSE IF env.excel = None THEN Respond(@, 404)
                             ELSE IF The(env.excel).size > 1000
                             THEN [@ EXCEPT !.pc = "done", !.status = 200,
                                            !.body = Some([file |-> The(env.excel)])]
                             ELSE Respond(@, 500)]
    /\ UNCHANGED searches
    /\ InvoicesUnchanged

\* part_004:38-49: without the row, prisma.invoice.findMany and 404
DownloadCount(r) ==
    /\ At(r, "download", "count")
    /\ \E o \in DbOutcome :
          req' = [req EXCEPT ![r] =
                    IF o = "throw" THEN Caught(@, "count", 500) ELSE Respond(@, 404)]
    /\ UNCHANGED searches
    /\ InvoicesUnchanged

(***************************************************************************)
(* POST /api/integrations/gmail/sync (gmail/sync/route.ts).                 *)
(***************************************************************************)
\* the most messages a Gmail listing of the model holds
MaxEmails == 2

GmailRequest(s) ==
    [ep |-> "gmail", pc |-> "findAccount", session |-> s, status |-> 0, log |-> <<>>,
     errs |-> {}, account |-> None, accessToken |-> None, now |-> 0, totalEmails |-> 0,
     i |-> 0, processedEmails |-> 0, body |-> None]

GmailUnchanged == UNCHANGED <<users, chats, messages, invoices, env>>

\* sync/route.ts:8-15: auth(); 401 without session.user.id
GmailAuth(r) ==
    /\ Accept(r)
    /\ \E s \in Sessions :
          req' = [req EXCEPT ![r] =
                    IF s.id = None THEN Respond(GmailRequest(s), 401) ELSE GmailRequest(s)]
    /\ UNCHANGED <<accounts, searches, nextId>>
    /\ GmailUnchanged

\* sync/route.ts:20-44: prisma.account.findFirst({ userId, provider: "google" });
\* 400 without a row or a token, and with an expired token that cannot be renewed;
\* now is read once, at 36
GmailFindAccount(r) ==
    /\ At(r, "gmail", "findAccount")
    /\ \E o \in DbOutcome :
          req' = [req EXCEPT ![r] =
                    IF o = "throw" THEN Caught(@, "findAccount", 500)
                    ELSE LET found == {a \in accounts : a.userId = The(req[r].session.id)
                                                         /\ a.provider = "google"}
                         IN  IF found = {} THEN Respond(@, 400)
                             ELSE LET account == CHOOSE a \in found : TRUE
                                  IN  IF account.access_token = None THEN Respond(@, 400)
                                      ELSE IF account.expires_at # None
                                              /\ The(account.expires_at) < env.now
                                      THEN IF account.refresh_token = None THEN Respond(@, 400)
                                           ELSE [@ EXCEPT !.pc = "refresh", !.account = Some(account.id),
                                                          !.accessToken = account.access_token,
                                                          !.now = env.now]
                                      ELSE [@ EXCEPT !.pc = "list", !.account = Some(account.id),
                                                     !.accessToken = account.access_token,
                                                     !.now = env.now]]
    /\ UNCHANGED <<accounts, searches, nextId>>
    /\ GmailUnchanged

\* sync/route.ts:48-69: the token endpoint; 400 when it refuses, 500 (caught at
\* 80) when the call fails
GmailRefresh(r) ==
    /\ At(r, "gmail", "refresh")
    /\ \E o \in FetchOutcome :
          req' = [req EXCEPT ![r] =
                    IF o = "throw"
                    THEN [Caught(@, "refresh", 500) EXCEPT !.log = Append(@, Ev("fetch", "token", Null))]
                    ELSE IF o = "notOk"
                    THEN [Respond(@, 400) EXCEPT !.log = Append(@, Ev("fetch", "token", Null))]
                    ELSE [@ EXCEPT !.pc = "saveToken", !.accessToken = Some("renewed"),
                                   !.log = Append(@, Ev("fetch", "token", Null))]]
    /\ UNCHANGED <<accounts, searches, nextId>>
    /\ GmailUnchanged

\* sync/route.ts:72-79: prisma.account.update with the token and now + 3600
GmailSaveToken(r) ==
    /\ At(r, "gmail", "saveToken")
    /\ \E o \in DbOutcome :
          IF o = "throw"
          THEN /\ req' = [req EXCEPT ![r] = Caught(@, "saveToken", 500)]
               /\ UNCHANGED accounts
          ELSE /\ accounts' = {IF a.id = The(req[r].account)
                               THEN [a EXCEPT !.access_token = req[r].accessToken,
                                              !.expires_at = Some(req[r].now + 3600)]
                               ELSE a : a \in accounts}
               /\ req' = [req EXCEPT ![r] =
                            [@ EXCEPT !.pc = "list",
                                      !.log = Append(@, Ev("write", "account.update", The(req[r].account)))]]
    /\ UNCHANGED <<searches, nextId>>
    /\ GmailUnchanged

\* sync/route.ts:103-109: gmail.users.messages.list; a failure is caught at 165
GmailList(r) ==
    /\ At(r, "gmail", "list")
    /\ \E o \in {"ok", "throw"}, n \in 0..MaxEmails :
          req' = [req EXCEPT ![r] =
                    IF o = "throw"
                    THEN [Caught(@, "list", 500) EXCEPT !.log = Append(@, Ev("fetch", "messages.list", Null))]
                    ELSE [@ EXCEPT !.pc = "get", !.totalEmails = n,
                                   !.log = Append(@, Ev("fetch", "messages.list", Null))]]
    /\ UNCHANGED <<accounts, searches, nextId>>
    /\ GmailUnchanged

\* sync/route.ts:113-140: gmail.users.messages.get of the next message; one
\* that fails is left out
GmailGet(r) ==
    /\ At(r, "gmail", "get")
    /\ req[r].i < req[r].totalEmails
    /\ \E o \in {"ok", "throw"} :
          req' = [req EXCEPT ![r] =
                    [@ EXCEPT !.i = @ + 1,
                              !.processedEmails = IF o = "ok" THEN @ + 1 ELSE @,
                              !.log = Append(@, Ev("fetch", "messages.get", Null))]]
    /\ UNCHANGED <<accounts, searches, nextId>>
    /\ GmailUnchanged

\* sync/route.ts:143-163: prisma.invoiceSearch.create, then the answer
GmailLog(r) ==
    /\ At(r, "gmail", "get")
    /\ req[r].i = req[r].totalEmails
    /\ \E o \in DbOutcome :
          IF o = "throw"
          THEN /\ req' = [req EXCEPT ![r] = Caught(@, "log", 500)]
               /\ UNCHANGED <<searches, nextId>>
          ELSE /\ searches' = Append(searches,
                                [id |-> nextId, userId |-> The(req[r].session.id),
                                 query |-> <<"G","m","a","i","l"," ","s","y","n","c",":"," ","i","n","v","o","i","c","e"," ","O","R"," ","r","e","c","e","i","p","t"," ","O","R"," ","b","i","l","l"," ","O","R"," ","s","t","a","t","e","m","e","n","t">>,
                                 results |-> [totalEmails |-> req[r].totalEmails,
                                              processedEmails |-> req[r].processedEmails]])
               /\ nextId' = nextId + 1
               /\ req' = [req EXCEPT ![r] =
                            [@ EXCEPT !.pc = "done", !.status = 200,
                                      !.body = Some([totalEmails |-> req[r].totalEmails,
                                                     processedEmails |-> req[r].processedEmails]),
                                      !.log = Append(@, Ev("write", "invoiceSearch.create", nextId))]]
    /\ UNCHANGED accounts
    /\ GmailUnchanged

(***************************************************************************)
(* The specification of all data endpoints, over the databases and disks    *)
(* below.                                                                   *)
(***************************************************************************)
\* the Account row of the demo user's Google sign-in
GoogleAccount(refresh_token, expires_at) ==
    [id |-> 9, userId |-> 1, provider |-> "google", access_token |-> Some("granted"),
     refresh_token |-> refresh_token, expires_at |-> expires_at]

\* the disk: the log folder, invoice-service/originals, and
\* invoice-service/exports/invoice_analysis.xlsx
Disk(originals, excel) == [logs |-> <<>>, now |-> 5000, originals |-> originals, excel |-> excel]

Seeded(accs, disk) ==
    [users |-> {SeedUser}, chats |-> SeedChats, messages |-> SeedMessages,
     invoices |-> <<SeedInvoice>>, accounts |-> accs, env |-> disk]

\* the seeded database with each state of the Google account over each disk,
\* the demo user without sessions or invoices, and the empty database
Installations ==
    { Seeded({}, Disk(<< <<"1","7","0","0","0","0","0","0","0","0","_","a",".","p","d","f">> >>, Some([size |-> 20000]))),
      Seeded({GoogleAccount(None, None)}, Disk(<<>>, None)),
      Seeded({GoogleAccount(Some("refresh"), Some(4000))}, Disk(<< <<"a",".","p","d","f">> >>, Some([size |-> 10]))),
      Seeded({GoogleAccount(None, Some(4000))}, Disk(<<>>, None)),
      [users |-> {SeedUser}, chats |-> {}, messages |-> <<>>, invoices |-> <<>>,
       accounts |-> {}, env |-> Disk(<<>>, None)],
      [users |-> {}, chats |-> {}, messages |-> <<>>, invoices |-> <<>>,
       accounts |-> {}, env |-> Disk(<<>>, None)] }

InitEndpoints ==
    /\ \E inst \in Installations :
          /\ users = inst.users
          /\ chats = inst.chats
          /\ messages = inst.messages
          /\ invoices = inst.invoices
          /\ accounts = inst.accounts
          /\ env = inst.env
    /\ searches = <<>>
    /\ req = [r \in 1..MaxReq |-> Idle]
    /\ nextId = 10

NextEndpoints ==
    \E r \in 1..MaxReq :
        \/ ChatAuth(r) \/ ChatBody(r) \/ ChatFindUser(r) \/ ChatCreateUser(r)
        \/ ChatFindSession(r) \/ ChatCreateSession(r) \/ ChatSaveUserMessage(r)
        \/ ChatCannedResponse(r) \/ ChatInvoiceFindUser(r) \/ ChatQueryEmbedding(r)
        \/ ChatFindSimilar(r) \/ ChatRAGResponse(r) \/ ChatFallback(r)
        \/ ChatStreamStart(r) \/ ChatStreamChunk(r) \/ ChatStreamFinish(r)
        \/ DeleteAuth(r) \/ DeleteFindUser(r) \/ DeleteFindSession(r)
        \/ DeleteMessages(r) \/ DeleteSession(r)
        \/ UploadAuth(r) \/ UploadFindUser(r) \/ UploadCreateInvoice(r) \/ MockTimer(r)
        \/ UploadParse(r) \/ UploadReadReply(r) \/ UploadEmbed(r) \/ UploadUpdate(r)
        \/ UploadUpdateJson(r) \/ UploadFetchUpdated(r) \/ UploadFailed(r)
        \/ DashAuth(r) \/ DashFindUser(r) \/ DashSummary(r)
        \/ ListChatsAuth(r) \/ DemoAuth(r) \/ ChatsFindUser(r) \/ ChatsCreateUser(r)
        \/ ChatsFind(r) \/ DemoCreateChat(r)
        \/ ListInvoicesAuth(r) \/ SearchAuth(r) \/ ExportAuth(r) \/ DownloadAuth(r)
        \/ InvoicesFindUser(r) \/ ListInvoices(r) \/ SearchFind(r) \/ SearchLog(r)
        \/ ExportFindInvoice(r) \/ DownloadFindInvoice(r) \/ DownloadCount(r)
        \/ GmailAuth(r) \/ GmailFindAccount(r) \/ GmailRefresh(r) \/ GmailSaveToken(r)
        \/ GmailList(r) \/ GmailGet(r) \/ GmailLog(r)

SpecEndpoints == InitEndpoints /\ [][NextEndpoints]_vars

(***************************************************************************)
(* Properties of the endpoints together.                                    *)
(***************************************************************************)
DataEndpoints ==
    {"chat", "chats", "delete", "demo", "invoices", "mock", "upload", "search", "export",
     "download", "dashboard", "gmail"}

\* C9: a request to a data endpoint that carries no session is answered 401,
\* and it writes nothing to the database and calls no service.
C9_Gate ==
    /\ [](\A r \in Req :
            (req[r].ep \in DataEndpoints /\ req[r].session = NoSession) =>
               /\ req[r].pc = "done" /\ req[r].status = 401
               /\ req[r].log = <<>>)
    /\ [][\A r \in Req :
            (req'[r].ep \in DataEndpoints /\ req'[r].session = NoSession /\ req'[r] # req[r]) =>
               UNCHANGED <<users, chats, messages, invoices, accounts, searches, env>>]_vars

C9_Witness ==
    \E r \in Req :
       /\ req[r].ep = "gmail" /\ req[r].session = NoSession /\ req[r].status = 401
       /\ accounts # {}

(***************************************************************************)
(* Properties of failures of the calls to other services.                   *)
(***************************************************************************)
\* the outbound calls of a request, by their name, in order
fetchesOf(rq) == SelectSeq(rq.log, LAMBDA e : e.k = "fetch")

\* C11: an upload in which a call to the parsing service or to the embeddings
\* API failed (and every database call succeeded) is answered with the invoice
\* stored with status error, and it made each outbound call at most once.
C11_ExternalFailureIsError ==
    \A r \in Req :
       (req[r].ep = "upload" /\ req[r].pc = "done" /\ req[r].invoice # None
          /\ req[r].errs # {} /\ req[r].errs \subseteq {"parse", "embedding"}) =>
          /\ invoiceById(The(req[r].invoice)).status = "error"
          /\ \A i, j \in 1..Len(fetchesOf(req[r])) :
                fetchesOf(req[r])[i].what = fetchesOf(req[r])[j].what => i = j

\* C12: a chat request on the invoice path whose embeddings or completion
\* call failed (and nothing else) is answered as a failure, an HTTP error
\* status or an error frame with no done frame, and made each call once.
C12_UpstreamFailureSurfaced ==
    \A r \in Req :
       (req[r].ep = "chat" /\ req[r].pc = "done"
          /\ req[r].errs # {} /\ req[r].errs \subseteq {"embedding", "completion"}) =>
          /\ req[r].status >= 400 \/ hasFrame(req[r], "error")
          /\ ~hasFrame(req[r], "done")
          /\ \A i, j \in 1..Len(fetchesOf(req[r])) :
                fetchesOf(req[r])[i].what = fetchesOf(req[r])[j].what => i = j

(***************************************************************************)
(* The signIn callback (part_001:75-110).                                   *)
(***************************************************************************)
\* the sign-in attempts: the provider of the account and the email of the
\* user, which a provider may leave out
SignIns == {[provider |-> p, email |-> e] :
               p \in {"google", "github", "credentials"}, e \in {DemoEmail, OtherEmail, Null}}

SignInRequest(attempt) ==
    [ep |-> "signIn", pc |-> "findUser", attempt |-> attempt, log |-> <<>>, errs |-> {},
     allowed |-> None]

\* the answer of the callback to a sign-in that reached the lookup of the user:
\* true when the lookup throws (part_001:104-108), true with a linked Google
\* account (91-93), true without one (94-98), true without a row (101-103)
signInAnswer(threw, existingUser) ==
    IF threw THEN TRUE
    ELSE IF existingUser # {}
    THEN IF \E acc \in accounts : acc.userId = The(existingUser).id /\ acc.provider = "google"
         THEN TRUE
         ELSE TRUE
    ELSE TRUE

\* part_001:75-77 and 111: every provider but Google is allowed at once
SignIn(r) ==
    /\ Accept(r)
    /\ \E attempt \in SignIns :
          req' = [req EXCEPT ![r] =
                    IF attempt.provider = "google" THEN SignInRequest(attempt)
                    ELSE [SignInRequest(attempt) EXCEPT !.pc = "done", !.allowed = Some(TRUE)]]
    /\ LoginUnchanged

\* signInFindUser refusing the sign-in when the lookup fails
SignInFailClosed(r) ==
    /\ At(r, "signIn", "findUser")
    /\ \E o \in DbOutcome :
          LET email == req[r].attempt.email
              threw == o = "throw" \/ email = Null
          IN  req' = [req EXCEPT ![r] =
                        [@ EXCEPT !.pc = "done",
                                  !.errs = @ \cup (IF threw THEN {"findUser"} ELSE {}),
                                  !.allowed = Some(~threw),
                                  !.log = Append(@, Ev("read", "user.findUnique", Null))]]
    /\ LoginUnchanged

\* part_001:78-108: prisma.user.findUnique({ email, include: accounts }); it
\* throws without an email; the catch at 104 allows the sign-in
SignInFindUser(r) ==
    /\ At(r, "signIn", "findUser")
    /\ \E o \in DbOutcome :
          LET email == req[r].attempt.email
              threw == o = "throw" \/ email = Null
              existingUser == IF threw THEN {} ELSE UserByEmail(email)
          IN  req' = [req EXCEPT ![r] =
                        [@ EXCEPT !.pc = "done",
                                  !.errs = @ \cup (IF threw THEN {"findUser"} ELSE {}),
                                  !.allowed = Some(signInAnswer(threw, existingUser)),
                                  !.log = Append(@, Ev("read", "user.findUnique", Null))]]
    /\ LoginUnchanged

\* an Account row that links a user to a provider
LinkedAccount(id, userId, provider) ==
    [id |-> id, userId |-> userId, provider |-> provider, access_token |-> Some("granted"),
     refresh_token |-> None, expires_at |-> None]

\* the User tables of the login specification, each with no account, a Google
\* account or a GitHub account of its users
InitSignIn ==
    /\ users \in {{}, {SeedUser}, {OAuthUser}, {SeedUser, OAuthUser}, {SeedUser, PasswordUser}}
    /\ accounts \in {{}} \cup {{LinkedAccount(20 + u.id, u.id, p) : u \in users} :
                                  p \in {"google", "github"}}
    /\ chats = {}
    /\ messages = <<>>
    /\ invoices = <<>>
    /\ searches = <<>>
    /\ req = [r \in 1..MaxReq |-> Idle]
    /\ nextId = 10
    /\ env = [logs |-> <<>>]

NextSignIn == \E r \in 1..MaxReq : SignIn(r) \/ SignInFindUser(r)

SpecSignIn == InitSignIn /\ [][NextSignIn]_vars

\* C13: the signIn callback answers true to every sign-in attempt: with a
\* user that has a Google account, one that has none, no user, another
\* provider, and when the lookup of the user throws; it never answers false.
C13_SignInAllowed ==
    \A r \in Req :
       (req[r].ep = "signIn" /\ req[r].pc = "done") => req[r].allowed = Some(TRUE)

C13_Witness ==
    \E r \in Req :
       /\ req[r].ep = "signIn" /\ req[r].pc = "done"
       /\ req[r].attempt.provider = "google"
       /\ "findUser" \in req[r].errs
       /\ \E acc \in accounts : acc.provider = "google"
       /\ req[r].allowed = Some(TRUE)

\* C14: authorize answers a user only to the demo pair, or when a User row
\* with the email exists whose stored hash is that of the password; a lookup
\* that throws, an unknown email and a wrong password are answered null.
C14_AuthorizeOnlyIf ==
    \A r \in Req :
       (req[r].ep = "login" /\ req[r].pc = "done") =>
          LET creds == req[r].creds
              demo == creds.email = DemoEmail /\ creds.password = DemoPassword
              matching == {u \in users : /\ u.email = creds.email
                                         /\ u.passwordHash = Some(bcryptHash(creds.password))}
          IN  /\ req[r].result # None =>
                    \/ demo /\ The(req[r].result).email = DemoEmail
                    \/ \E u \in matching : The(req[r].result) = [id |-> u.id, email |-> u.email]
              /\ (~demo /\ (req[r].errs # {} \/ matching = {})) => req[r].result = None

C14_Witness ==
    \E r \in Req :
       /\ req[r].ep = "login" /\ req[r].pc = "done"
       /\ req[r].creds = [email |-> OtherEmail, password |-> ""]
       /\ PasswordUser \in users
       /\ req[r].errs = {}
       /\ req[r].result = None

(***************************************************************************)
(* Properties of the Message table.                                         *)
(***************************************************************************)
messageIds(ms) == {ms[i].id : i \in 1..Len(ms)}

SearchRows ==
    << InvoiceRow(2, 1, <<"a",".","p","d","f">>, "processed", SampleData, Some([dim |-> 1536, dir |-> 1])),
       InvoiceRow(3, 1, <<"b",".","p","d","f">>, "processed", SampleData, None),
       InvoiceRow(4, 1, <<"c",".","p","d","f">>, "processing", UploadedData, None),
       InvoiceRow(5, 9, <<"d",".","p","d","f">>, "processed", SampleData, Some([dim |-> 1536, dir |-> 2])) >>

InitSearch ==
    /\ users = {SeedUser, OtherUser}
    /\ \E kept \in SUBSET (1..Len(SearchRows)) :
          invoices = SelectSeq(SearchRows, LAMBDA row : \E k \in kept : SearchRows[k] = row)
    /\ chats = {}
    /\ messages = <<>>
    /\ accounts = {}
    /\ searches = <<>>
    /\ req = [r \in 1..MaxReq |-> Idle]
    /\ nextId = 10
    /\ env = [logs |-> <<>>]

NextSearch ==
    \E r \in 1..MaxReq : SearchAuth(r) \/ InvoicesFindUser(r) \/ SearchFind(r) \/ SearchLog(r)

SpecSearch == InitSearch /\ [][NextSearch]_vars

\* C16: a search with a non-empty q that is answered returns every processed
\* invoice of the requester whose stored extracted data holds q, compared
\* without case (there being at most 10), with or without stored embeddings,
\* and returns nothing but processed invoices of the requester.
C16_SearchFindsMatches ==
    \A r \in Req :
       (req[r].ep = "search" /\ req[r].pc = "done" /\ req[r].status = 200
          /\ dropChars(req[r].query, {" ", "\n", "\t"}) # <<>>) =>
          LET mine == processedInvoicesOf(The(req[r].user))
              holds(inv) == includes(toLowerCase(jsonStringify(inv.extractedData)),
                                     toLowerCase(req[r].query))
              matching == {mine[i].id : i \in {j \in 1..Len(mine) : holds(mine[j])}}
          IN  /\ Cardinality(matching) <= 10 => matching \subseteq The(req[r].body)
              /\ The(req[r].body) \subseteq {mine[i].id : i \in 1..Len(mine)}

(***************************************************************************)
(* The first-requests specification: requests that run side by side against *)
(* a database without User rows, to the three endpoints that create the     *)
(* User on demand.                                                          *)
(***************************************************************************)
\* the requests that run side by side
MaxRacers == 2

InitFirstTime ==
    /\ users = {}
    /\ chats = {}
    /\ messages = <<>>
    /\ invoices = <<>>
    /\ accounts = {}
    /\ searches = <<>>
    /\ req = [r \in 1..MaxRacers |-> Idle]
    /\ nextId = 10
    /\ env = [logs |-> <<>>]

\* the racers of this specification hold sessions of one email, unknown to the
\* User table at the start, and POST /api/chat carries a greeting
sameEmail(rq) ==
    /\ rq.session.email = DemoEmail
    /\ (rq.ep = "chat" /\ rq.pc # "body") => rq.prompt \in {<<"h","i">>, <<>>}

FirstChatAuth(r) == ChatAuth(r) /\ sameEmail(req'[r])

FirstChatBody(r) == ChatBody(r) /\ sameEmail(req'[r])

FirstListChatsAuth(r) == ListChatsAuth(r) /\ sameEmail(req'[r])

FirstDemoAuth(r) == DemoAuth(r) /\ sameEmail(req'[r])

NextFirstTime ==
    \E r \in 1..MaxRacers :
        \/ FirstChatAuth(r) \/ FirstChatBody(r)
        \/ ChatFindUser(r) \/ ChatCreateUser(r)
        \/ ChatFindSession(r) \/ ChatCreateSession(r) \/ ChatSaveUserMessage(r)
        \/ ChatCannedResponse(r)
        \/ ChatStreamStart(r) \/ ChatStreamChunk(r) \/ ChatStreamFinish(r)
        \/ FirstListChatsAuth(r) \/ FirstDemoAuth(r)
        \/ ChatsFindUser(r) \/ ChatsCreateUser(r)
        \/ ChatsFind(r) \/ DemoCreateChat(r)

SpecFirstTime == InitFirstTime /\ [][NextFirstTime]_vars

createsUser(rq) == rq.ep \in {"chat", "chats", "demo"}

\* C17: whatever the interleaving of first requests for one email, no email
\* has two User rows, and a request that is about to create the User when
\* another request has created it meanwhile goes on with that row instead of
\* failing.
C17_CreateIfAbsentIsSafe ==
    /\ [](\A u, v \in users : u.email = v.email => u = v)
    /\ [][\A r \in Req :
            (/\ createsUser(req[r]) /\ req[r].pc = "createUser"
             /\ UserByEmail(req[r].session.email) # {}
             /\ req'[r] # req[r]) =>
               req'[r].status # 500]_vars

(***************************************************************************)
(* The owners specification: POST /api/chat and DELETE /api/chats/:id over *)
(* a database in which two users own sessions, so that a request can name  *)
(* a session of the other user.                                            *)
(***************************************************************************)
OtherChat == [id |-> 2, userId |-> 9, title |-> <<"r","e","n","t">>]

OtherMessages ==
    << [id |-> 2, chatId |-> 2, role |-> "user", content |-> <<"r","e","n","t">>] >>

\* the other user has a row and a session, or has not yet made a request
InitOwners ==
    /\ \E known \in BOOLEAN :
          /\ users = IF known THEN {SeedUser, OtherUser} ELSE {SeedUser}
          /\ chats = {[id |-> 3, userId |-> 1, title |-> <<"h","i">>]}
                        \cup IF known THEN {OtherChat} ELSE {}
          /\ messages = SubSeq(SeedMessages, 1, 2)
                           \o IF known THEN OtherMessages ELSE <<>>
    /\ invoices = <<SeedInvoice>>
    /\ accounts = {}
    /\ searches = <<>>
    /\ req = [r \in 1..MaxReq |-> Idle]
    /\ nextId = 10
    /\ env = [logs |-> <<>>]

SpecOwners == InitOwners /\ [][NextChat]_vars

\* the ids of the rows a request created with the named call
createdBy(rq, what) == {rq.log[k].val : k \in writesOf(rq, what)}

\* the session with this id is owned by a user other than the one of the email
foreign(id, email) ==
    \E c \in chats : /\ c.id = id
                     /\ ~\E u \in users : u.id = c.userId /\ u.email = email

ownedBy(c, email) == \E u \in users : u.id = c.userId /\ u.email = email

\* C18: every message a chat request created is in a session owned by the
\* user of the request's session; a chat request that names a session of
\* another user leaves that session and its messages as they were and saves
\* its messages to a session it created itself for the requester; a delete
\* request that names a session of another user changes no session and no
\* message and, unless the database fails, answers 404.
C18_ForeignChatUntouched ==
    /\ [](\A r \in Req : req[r].ep = "chat" =>
            \A i \in 1..Len(messages) :
               messages[i].id \in createdBy(req[r], "message.create") =>
                  \E c \in chats : c.id = messages[i].chatId
                                   /\ ownedBy(c, req[r].session.email))
    /\ [][\A r \in Req :
            /\ (/\ req[r].ep = "chat" /\ req[r].chatId # None
                /\ foreign(The(req[r].chatId), req[r].session.email)
                /\ req'[r] # req[r]) =>
                  LET id == The(req[r].chatId)
                      of(ms) == SelectSeq(ms, LAMBDA m : m.chatId = id)
                  IN  /\ of(messages') = of(messages)
                      /\ {c \in chats' : c.id = id} = {c \in chats : c.id = id}
                      /\ messages' # messages =>
                            /\ messages'[Len(messages')].chatId
                                  \in createdBy(req[r], "chatSession.create")
                            /\ \E c \in chats : /\ c.id = messages'[Len(messages')].chatId
                                                /\ ownedBy(c, req[r].session.email)
            /\ (/\ req[r].ep = "delete" /\ ~Unauthorized(req[r].session)
                /\ foreign(req[r].chatId, req[r].session.email)
                /\ req'[r] # req[r]) =>
                  /\ chats' = chats /\ messages' = messages
                  /\ (req'[r].pc = "done" /\ req'[r].errs = {}) => req'[r].status = 404]_vars

\* a chat request of one user named the other user's session and was answered
\* in full; both of its messages are stored
C18_Witness ==
    \E r \in Req :
       /\ streamed(req[r]) /\ req[r].closed
       /\ req[r].chatId = Some(OtherChat.id)
       /\ req[r].session.email = DemoEmail
       /\ OtherChat \in chats
       /\ Cardinality(createdBy(req[r], "message.create")) = 2
       /\ \A id \in createdBy(req[r], "message.create") :
             \E i \in 1..Len(messages) : messages[i].id = id

(***************************************************************************)
(* The spend specification: the dashboard over tables of invoices of two    *)
(* vendors whose amounts have cents.                                        *)
(***************************************************************************)
SpendData(vendor, value) ==
    << [k |-> <<"v","e","n","d","o","r","_","n","a","m","e">>, v |-> Str(vendor)], [k |-> <<"t","o","t","a","l","_","a","m","o","u","n","t">>, v |-> value] >>

\* amounts as part_007:177 lists them, and a number
SpendRows ==
    {[vendor |-> n, amount |-> a] :
        n \in {<<"A","c","m","e">>, <<"B","o","l","t">>},
        a \in {Str(<<"0",".","1","0">>), Str(<<"$","0",".","2","0">>), Num(1000)}}

InitSpend ==
    /\ users = {SeedUser}
    /\ chats = {}
    /\ messages = <<>>
    /\ \E n \in 0..MaxInvoices :
          \E rows \in [1..n -> SpendRows] :
             invoices = [i \in 1..n |->
                           InvoiceRow(9 + i, 1, <<"a",".","p","d","f">>, "processed",
                                      SpendData(rows[i].vendor, rows[i].amount), None)]
    /\ accounts = {}
    /\ searches = <<>>
    /\ req = [r \in 1..MaxReq |-> Idle]
    /\ nextId = 10 + MaxInvoices
    /\ env = [logs |-> <<>>]

SpecSpend == InitSpend /\ [][NextDash]_vars

\* the numbers of ns added in some order give total
addsUpTo(ns, total) ==
    \E p \in Permutations(1..Len(ns)) :
       sumOver(1..Len(ns), [i \in 1..Len(ns) |-> ns[p[i]]]) = total

\* C19: in a dashboard answer the monthlySpend values add up to
\* summary.totalSpend, and so do the totals of the vendors before the cut;
\* topVendors has at most 10 entries in the order of non-increasing
\* totalSpend, and summary.topVendor and summary.topVendorSpend are its first
\* entry.
C19_AggregationsAgree ==
    \A r \in Req :
       (req[r].ep = "dashboard" /\ req[r].status = 200) =>
          LET body == The(req[r].body)
              months == [i \in 1..Len(body.monthlySpend) |-> body.monthlySpend[i].v]
              vendors == [i \in 1..Len(req[r].vendorSpend) |-> req[r].vendorSpend[i].total]
              top == body.topVendors
          IN  /\ addsUpTo(months, body.totalSpend)
              /\ addsUpTo(vendors, body.totalSpend)
              /\ Len(top) <= 10
              /\ \A i \in 1..Len(top) - 1 : ~less(top[i].totalSpend, top[i + 1].totalSpend)
              /\ top # <<>> => /\ body.topVendor = top[1].vendor
                               /\ body.topVendorSpend = top[1].totalSpend

(***************************************************************************)
(* The Gmail specification: POST /api/integrations/gmail/sync over each     *)
(* state of the Google account, with a clock that goes on while a request   *)
(* waits for the calls it makes.                                            *)
(***************************************************************************)
\* the last second the clock reaches
Horizon == 5002

\* a second passes
Tick ==
    /\ env.now < Horizon
    /\ env' = [env EXCEPT !.now = @ + 1]
    /\ UNCHANGED <<users, chats, messages, invoices, accounts, searches, req, nextId>>

\* no Account row, or one whose token has no expiry, expired an hour ago, expires
\* within the next second or is good for an hour, with and without a refresh
\* token
InitGmail ==
    /\ users = {SeedUser}
    /\ chats = {}
    /\ messages = <<>>
    /\ invoices = <<>>
    /\ accounts \in {{}} \cup {{GoogleAccount(t, e)} :
                                  t \in {None, Some("refresh")},
                                  e \in {None, Some(1400), Some(5001), Some(8600)}}
    /\ searches = <<>>
    /\ req = [r \in 1..MaxReq |-> Idle]
    /\ nextId = 10
    /\ env = Disk(<<>>, None)

NextGmail ==
    \/ \E r \in 1..MaxReq :
          \/ GmailAuth(r) \/ GmailFindAccount(r) \/ GmailRefresh(r) \/ GmailSaveToken(r)
          \/ GmailList(r) \/ GmailGet(r) \/ GmailLog(r)
    \/ Tick

SpecGmail == InitGmail /\ [][NextGmail]_vars

\* the request's step is a call of the Gmail API
callsGmail(r) ==
    /\ req[r].ep = "gmail" /\ req[r].pc \in {"list", "get"}
    /\ Len(fetchesOf(req'[r])) = Len(fetchesOf(req[r])) + 1

\* the names of the events of a log, in their order
whats(log) == [k \in 1..Len(log) |-> log[k].what]

\* C20: no step of a sync request calls the Gmail API with an access token
\* whose expiry on the Account row has passed at that time; a request that
\* found the expiry in the past has called the token endpoint and updated the
\* Account with the renewed token and a later expiry before it lists
\* messages; and a request answered 400 (no refresh token, or the refresh
\* rejected) has made no Gmail call and changed no Account row.
C20_NoExpiredToken ==
    /\ [][\A r \in Req : callsGmail(r) =>
            \A a \in accounts :
               (a.id = The(req[r].account) /\ a.access_token = req[r].accessToken
                /\ a.expires_at # None) => The(a.expires_at) >= env.now]_vars
    /\ [](\A r \in Req :
            (/\ req[r].ep = "gmail"
             /\ \E k \in 1..Len(req[r].log) : req[r].log[k].what = "messages.list"
             /\ \E k \in 1..Len(req[r].log) : req[r].log[k].what = "token") =>
                /\ SubSeq(whats(req[r].log), 1, 3) = <<"token", "account.update", "messages.list">>
                /\ \E a \in accounts :
                      /\ a.id = The(req[r].account)
                      /\ a.access_token = Some("renewed")
                      /\ The(a.expires_at) > req[r].now)
    /\ [][\A r \in Req :
            (req[r].ep = "gmail" /\ req'[r] # req[r] /\ req'[r].status = 400) =>
               /\ accounts' = accounts
               /\ ~\E k \in 1..Len(req'[r].log) :
                     req'[r].log[k].what \in {"messages.list", "messages.get"}]_vars

(***************************************************************************)
(* The viewer modals of the client (pdf-viewer-modal.tsx and                *)
(* excel-viewer-modal.tsx).  A modal is a component that stays mounted in   *)
(* the chat client; it occupies a slot of req.  A render of the component   *)
(* sees the state of that render; the effect of a render and the timer the  *)
(* effect sets keep what that render saw.  Times are in milliseconds.       *)
(***************************************************************************)
\* the time one step of the clock takes
Step == 5000

\* the longest time the model follows an open modal
MaxWait == 40000

\* pdf-viewer-modal.tsx:50 and excel-viewer-modal.tsx:38
PdfTimeout == 30000
ExcelTimeout == 15000

timeoutOf(kind) == IF kind = "pdf" THEN PdfTimeout ELSE ExcelTimeout

\* pdf-viewer-modal.tsx:47 and excel-viewer-modal.tsx:35
tooLong(kind) ==
    IF kind = "pdf" THEN "PDF is taking too long to load. Try downloading it instead."
    ELSE "Excel file is taking too long to load. Try downloading it instead."

\* pdf-viewer-modal.tsx:69-80: the text shown for a load error
loadErrorText(message) ==
    CASE message \in {"401", "Unauthorized"} ->
            "Authentication required. Please log in to view PDFs."
      [] message \in {"404", "Not Found"} ->
            "PDF file not found. The file may not exist or may have been deleted."
      [] message \in {"Network", "fetch"} ->
            "Network error. Please check your connection and try again."
      [] message \in {"InvalidPDFException", "corrupt"} ->
            "PDF file appears to be corrupted or invalid."
      [] OTHER -> "Failed to load PDF: " \o message

\* the messages of the errors of a load
LoadErrors == {"401", "Not Found", "fetch", "corrupt", "x"}

\* the URLs the chat client opens a modal with (chat-client.tsx:473)
Urls == {"/api/invoices/10/download", "/api/invoices/11/download"}

\* pdf-viewer-modal.tsx:22-26, excel-viewer-modal.tsx:21-22: the component as
\* mounted.  seen is the loading of the render whose effect is pending, timer
\* the timeout of the last effect (the time left and the loading its callback
\* closes over), mounted whether <Document> is rendered, waited the time since
\* the modal was opened, touched whether the load ended or a retry was asked
\* since then
ViewerModal(kind) ==
    [ep |-> "modal", kind |-> kind, pc |-> "idle", isOpen |-> FALSE, url |-> None,
     numPages |-> None, pageNumber |-> 1, loading |-> FALSE, error |-> None,
     seen |-> FALSE, timer |-> None, mounted |-> FALSE, waited |-> 0, touched |-> FALSE]

\* pdf-viewer-modal.tsx:105, 220: <Document> is part of the render
rendersDocument(m) ==
    m.kind = "pdf" /\ m.isOpen /\ ~m.loading /\ m.error = None /\ m.url # None

\* the render that follows a change of props or state
render(m) == [m EXCEPT !.mounted = rendersDocument(m)]

ViewerUnchanged ==
    UNCHANGED <<users, chats, messages, invoices, accounts, searches, nextId, env>>

\* chat-client.tsx:477-479: the parent opens the modal; the component renders
\* with the new props and the state it has, its effect is pending
ModalOpen(r) ==
    /\ req[r].ep = "modal" /\ req[r].pc = "idle" /\ ~req[r].isOpen
    /\ \E url \in Urls :
          req' = [req EXCEPT ![r] = render([@ EXCEPT !.isOpen = TRUE, !.url = Some(url),
                                                    !.pc = "effect", !.seen = req[r].loading,
                                                    !.waited = 0, !.touched = FALSE])]
    /\ ViewerUnchanged

\* chat-client.tsx:1207: onClose; the component renders nothing (105)
ModalClose(r) ==
    /\ req[r].ep = "modal" /\ req[r].pc = "idle" /\ req[r].isOpen
    /\ req' = [req EXCEPT ![r] = render([@ EXCEPT !.isOpen = FALSE, !.pc = "effect",
                                                 !.seen = req[r].loading])]
    /\ ViewerUnchanged

\* pdf-viewer-modal.tsx:35-54, excel-viewer-modal.tsx:24-42: the effect of a
\* render whose isOpen or URL changed: the cleanup of the effect before it
\* clears its timer (52); an open modal with a URL goes to loading and sets a
\* timer whose callback closes over the loading of this render (44-50); the
\* state changes are rendered at once
ModalEffect(r) ==
    /\ req[r].ep = "modal" /\ req[r].pc = "effect"
    /\ req' = [req EXCEPT ![r] =
                  IF @.isOpen /\ @.url # None
                  THEN render([@ EXCEPT !.pc = "idle", !.pageNumber = 1, !.error = None,
                                        !.loading = TRUE,
                                        !.timer = Some([left |-> timeoutOf(req[r].kind),
                                                        loading |-> req[r].seen])])
                  ELSE [@ EXCEPT !.pc = "idle", !.timer = None]]
    /\ ViewerUnchanged

\* pdf-viewer-modal.tsx:44-50, excel-viewer-modal.tsx:32-38: the callback of
\* the timer, which reads the loading of the render that set it
ModalTimeout(r) ==
    /\ req[r].ep = "modal" /\ req[r].timer # None /\ The(req[r].timer).left = 0
    /\ req' = [req EXCEPT ![r] =
                  IF The(@.timer).loading
                  THEN render([@ EXCEPT !.timer = None, !.error = Some(tooLong(req[r].kind)),
                                        !.loading = FALSE])
                  ELSE [@ EXCEPT !.timer = None]]
    /\ ViewerUnchanged

\* pdf-viewer-modal.tsx:56-61: onDocumentLoadSuccess, called by a rendered
\* <Document> when its file is loaded
DocumentLoadSuccess(r) ==
    /\ req[r].ep = "modal" /\ req[r].mounted /\ ~req[r].touched
    /\ \E numPages \in 1..2 :
          req' = [req EXCEPT ![r] = render([@ EXCEPT !.numPages = Some(numPages),
                                                    !.loading = FALSE, !.error = None,
                                                    !.touched = TRUE])]
    /\ ViewerUnchanged

\* pdf-viewer-modal.tsx:63-83: onDocumentLoadError
DocumentLoadError(r) ==
    /\ req[r].ep = "modal" /\ req[r].mounted /\ ~req[r].touched
    /\ \E message \in LoadErrors :
          req' = [req EXCEPT ![r] = render([@ EXCEPT !.error = Some(loadErrorText(message)),
                                                    !.loading = FALSE, !.touched = TRUE])]
    /\ ViewerUnchanged

\* excel-viewer-modal.tsx:116-121: the button Retry Excel Load
ExcelRetry(r) ==
    /\ req[r].ep = "modal" /\ req[r].kind = "excel" /\ req[r].pc = "idle"
    /\ req[r].isOpen /\ req[r].error # None
    /\ req' = [req EXCEPT ![r] = render([@ EXCEPT !.error = None, !.loading = TRUE,
                                                 !.touched = TRUE])]
    /\ ViewerUnchanged

\* pdf-viewer-modal.tsx:210-215, 254-259: the button Retry reloads the page,
\* which mounts the component anew
PdfRetry(r) ==
    /\ req[r].ep = "modal" /\ req[r].kind = "pdf" /\ req[r].pc = "idle"
    /\ req[r].isOpen /\ req[r].error # None
    /\ req' = [req EXCEPT ![r] = ViewerModal("pdf")]
    /\ ViewerUnchanged

\* time passes for the modals: no timer is overdue and no effect is pending
Elapse ==
    /\ \A r \in Req : req[r].ep = "modal" /\ req[r].pc = "idle"
    /\ \A r \in Req : req[r].timer # None => The(req[r].timer).left > 0
    /\ \E r \in Req : req[r].isOpen /\ req[r].waited < MaxWait
    /\ req' = [r \in Req |->
                 [req[r] EXCEPT
                     !.timer = IF @ = None THEN None
                               ELSE Some([The(@) EXCEPT !.left = IF @ > Step THEN @ - Step ELSE 0]),
                     !.waited = IF req[r].isOpen /\ @ < MaxWait THEN @ + Step ELSE @]]
    /\ ViewerUnchanged

InitViewer ==
    /\ users = {SeedUser}
    /\ chats = {}
    /\ messages = <<>>
    /\ invoices = <<>>
    /\ accounts = {}
    /\ searches = <<>>
    /\ req \in [1..MaxReq -> {ViewerModal("pdf"), ViewerModal("excel")}]
    /\ nextId = 10
    /\ env = Disk(<<>>, None)

NextViewer ==
    \/ \E r \in 1..MaxReq :
          \/ ModalOpen(r) \/ ModalClose(r) \/ ModalEffect(r) \/ ModalTimeout(r)
          \/ DocumentLoadSuccess(r) \/ DocumentLoadError(r) \/ ExcelRetry(r) \/ PdfRetry(r)
    \/ Elapse

SpecViewer == InitViewer /\ [][NextViewer]_vars

\* C21: a modal that is open with a URL for longer than its timeout (30 s for
\* the PDF viewer, 15 s for the Excel viewer) without its load having ended
\* is not loading and shows the error of a load that takes too long.
C21_TimeoutShowsError ==
    \A r \in Req :
       (/\ req[r].ep = "modal" /\ req[r].pc = "idle"
        /\ req[r].isOpen /\ req[r].url # None /\ ~req[r].touched
        /\ req[r].waited > timeoutOf(req[r].kind)) =>
          /\ ~req[r].loading
          /\ req[r].error = Some(tooLong(req[r].kind))

\* the viewer modals with a scheduler that runs pending effects and due
\* timers, a clock that goes on, and a rendered <Document> whose load ends
FairViewer ==
    /\ SpecViewer
    /\ WF_vars(Elapse)
    /\ \A r \in 1..MaxReq :
          /\ WF_vars(ModalEffect(r))
          /\ WF_vars(ModalTimeout(r))
          /\ WF_vars(DocumentLoadSuccess(r))

\* C29: a PDF viewer modal that is open with a URL eventually shows the
\* document or an error (or is closed) instead of loading for ever, and while
\* it is open a rendered <Document> stays rendered until its load has ended.
C29_DocumentDisplayed ==
    /\ \A r \in 1..MaxReq :
          [](req[r].ep = "modal" /\ req[r].kind = "pdf" /\ req[r].isOpen /\ req[r].url # None
             => <>(\/ ~req[r].isOpen
                   \/ /\ req[r].pc = "idle" /\ ~req[r].loading
                      /\ (req[r].mounted \/ req[r].error # None)))
    /\ [][\A r \in Req :
            (/\ req[r].ep = "modal" /\ req[r].kind = "pdf"
             /\ req[r].mounted /\ ~req[r].touched /\ ~req'[r].mounted) =>
                (req'[r].touched \/ ~req'[r].isOpen)]_vars

(***************************************************************************)
(* The event stream between POST /api/chat and the chat client: the frames  *)
(* as the bytes the server writes (route.ts:565-609) and as the client      *)
(* reads them back (chat-client.tsx:253-304).  A byte of an ASCII character *)
(* is written as the character, another byte as <XX>.  A value that is read *)
(* many times is named by a bound variable (x \in {e}).                     *)
(***************************************************************************)
\* the concatenation of a sequence of sequences
RECURSIVE flat(_)
flat(ss) ==
    The({IF Len(s) = 0 THEN <<>>
         ELSE IF Len(s) = 1 THEN s[1]
         ELSE flat(SubSeq(s, 1, Len(s) \div 2)) \o flat(SubSeq(s, Len(s) \div 2 + 1, Len(s))) :
            s \in {ss \o <<>>}})

\* the indices of s whose element satisfies Test, in their order
positions(s, Test(_)) ==
    LET at(i) == Test(i) IN SelectSeq([i \in 1..Len(s) |-> i], at)

\* the surrogate pair of the texts of the server (route.ts:543) with its
\* UTF-8 bytes and the digits of its units
Astral ==
    [hi |-> "<D83D>", lo |-> "<DE04>",
     utf8 |-> <<"<F0>", "<9F>", "<98>", "<84>">>,
     hiHex |-> <<"d","8","3","d">>, loHex |-> <<"d","e","0","4">>]

Replacement == "<FFFD>"
ReplacementUtf8 == <<"<EF>", "<BF>", "<BD>">>

isHigh(s, i) == i >= 1 /\ i <= Len(s) /\ s[i] = Astral.hi
isLow(s, i) == i >= 1 /\ i <= Len(s) /\ s[i] = Astral.lo
\* the unit at i is one half of a surrogate pair
paired(s, i) == (isHigh(s, i) /\ isLow(s, i + 1)) \/ (isLow(s, i) /\ isHigh(s, i - 1))

\* JSON.stringify of a string (QuoteJSONString): the quote, the backslash and
\* the line feed are escaped, and so is a surrogate without its other half
quote(s) ==
    LET unit(i) ==
            CASE s[i] = "\"" -> <<"\\", "\"">>
              [] s[i] = "\\" -> <<"\\", "\\">>
              [] s[i] = "\n" -> <<"\\", "n">>
              [] isHigh(s, i) /\ ~paired(s, i) -> <<"\\", "u">> \o Astral.hiHex
              [] isLow(s, i) /\ ~paired(s, i) -> <<"\\", "u">> \o Astral.loHex
              [] OTHER -> <<s[i]>>
    IN  <<"\"">> \o flat([i \in 1..Len(s) |-> unit(i)]) \o <<"\"">>

\* JSON.stringify of an object whose values are strings, members in their order
stringify(members) ==
    LET member(j) == The({(IF j > 1 THEN <<",">> ELSE <<>>)
                             \o quote(m.k) \o <<":">> \o quote(m.v) : m \in {members[j]}})
    IN  <<"{">> \o flat([j \in 1..Len(members) |-> member(j)]) \o <<"}">>

\* route.ts:565-569, 579-583, 597-602, 614-618: the object of a frame; an id
\* is written in digits
membersOf(frame) ==
    CASE frame.event = "start" ->
            << [k |-> <<"e","v","e","n","t">>, v |-> <<"s","t","a","r","t">>],
               [k |-> <<"c","h","a","t","I","d">>, v |-> decimal(frame.chatId)],
               [k |-> <<"m","e","s","s","a","g","e","I","d">>, v |-> decimal(frame.messageId)] >>
      [] frame.event = "chunk" ->
            << [k |-> <<"e","v","e","n","t">>, v |-> <<"c","h","u","n","k">>],
               [k |-> <<"c","o","n","t","e","n","t">>, v |-> <<frame.content>>],
               [k |-> <<"c","h","a","t","I","d">>, v |-> decimal(frame.chatId)] >>
      [] frame.event = "done" ->
            << [k |-> <<"e","v","e","n","t">>, v |-> <<"d","o","n","e">>],
               [k |-> <<"m","e","s","s","a","g","e","I","d">>, v |-> decimal(frame.messageId)],
               [k |-> <<"f","u","l","l","T","e","x","t">>, v |-> frame.fullText],
               [k |-> <<"c","h","a","t","I","d">>, v |-> decimal(frame.chatId)] >>
      [] OTHER ->
            << [k |-> <<"e","v","e","n","t">>, v |-> <<"e","r","r","o","r">>],
               [k |-> <<"e","r","r","o","r">>, v |-> <<"F","a","i","l","e","d"," ","t","o"," ","p","r","o","c","e","s","s"," ","m","e","s","s","a","g","e">>] >>

\* TextEncoder.encode: UTF-8; a surrogate without its other half becomes U+FFFD
encodeUnits(s) ==
    LET bytes(i) ==
            CASE isHigh(s, i) /\ paired(s, i) -> Astral.utf8
              [] isLow(s, i) /\ paired(s, i) -> <<>>
              [] s[i] \in {Astral.hi, Astral.lo, Replacement} -> ReplacementUtf8
              [] OTHER -> <<s[i]>>
    IN  flat([i \in 1..Len(s) |-> bytes(i)])

encode(text) == The({encodeUnits(s) : s \in {text}})

\* route.ts:570, 584, 603, 619: encoder.encode(`data: ${...}\n\n`)
frameBytes(frame) ==
    The({encode(<<"d","a","t","a",":"," ">> \o json \o <<"\n", "\n">>) :
            json \in {The({stringify(members) : members \in {membersOf(frame)}})}})

\* the bytes of a ReadableStream whose queue holds the frames
wire(frames) == flat([j \in 1..Len(frames) |-> frameBytes(frames[j])])

\* the byte sequences of more than one byte
MultiByte == {Astral.utf8, ReplacementUtf8}
leads == {q[1] : q \in MultiByte}
continuations == UNION {{q[k] : k \in 2..Len(q)} : q \in MultiByte}

\* the bytes from i on begin with the sequence q, or are a beginning of q
\* that the bytes end in
startsAt(b, i, q) == i + Len(q) - 1 <= Len(b) /\ SubSeq(b, i, i + Len(q) - 1) = q
cutAt(b, i, q) ==
    /\ i >= 1 /\ i <= Len(b) /\ Len(b) - i + 1 < Len(q)
    /\ SubSeq(b, i, Len(b)) = SubSeq(q, 1, Len(b) - i + 1)

\* TextDecoder.decode(value, { stream: true }) of the bytes b (those kept
\* from the call before and the new ones): the units of the complete
\* sequences, U+FFFD for a byte that belongs to none; a sequence cut by the
\* end of b (it begins among the last three bytes) is kept for the next call
kept(b) ==
    LET cut(i) == \E q \in MultiByte : cutAt(b, i, q)
        last == {i \in (Len(b) - 3)..Len(b) : i >= 1}
    IN  IF \E i \in last : cut(i)
        THEN SubSeq(b, CHOOSE i \in last : cut(i) /\ \A j \in last : j < i => ~cut(j), Len(b))
        ELSE <<>>

decodeTo(b, n) ==
    LET inside(i) == \E q \in MultiByte : \E k \in 1..(Len(q) - 1) :
                        i - k >= 1 /\ i - k + Len(q) - 1 <= n /\ startsAt(b, i - k, q)
        units(i) ==
            CASE b[i] \notin leads \cup continuations -> <<b[i]>>
              [] startsAt(b, i, Astral.utf8) /\ i + 3 <= n -> <<Astral.hi, Astral.lo>>
              [] startsAt(b, i, ReplacementUtf8) /\ i + 2 <= n -> <<Replacement>>
              [] inside(i) -> <<>>
              [] OTHER -> <<Replacement>>
    IN  flat([i \in 1..n |-> units(i)])

decode(bytes) ==
    The({The({decodeTo(b, n) : n \in {Len(b) - Len(kept(b))}}) : b \in {bytes}})

\* String.prototype.split('\n'); nl are the places of the line feeds
splitAt(s, nl) ==
    LET from(j) == IF j = 1 THEN 1 ELSE nl[j - 1] + 1
        to(j) == IF j > Len(nl) THEN Len(s) ELSE nl[j] - 1
    IN  [j \in 1..(Len(nl) + 1) |-> SubSeq(s, from(j), to(j))] \o <<>>

split(text) ==
    The({The({splitAt(s, nl) : nl \in {positions(s, LAMBDA i : s[i] = "\n")}}) :
            s \in {text}})

\* String.prototype.startsWith
startsWith(s, sub) == Len(sub) <= Len(s) /\ SubSeq(s, 1, Len(sub)) = sub

\* the number of backslashes that stand immediately before position i
backslashes(t, i) ==
    CHOOSE k \in 0..(i - 1) :
       /\ \A j \in (i - k)..(i - 1) : t[j] = "\\"
       /\ (k = i - 1 \/ t[i - k - 1] # "\\")

\* the characters after a backslash that JSON.parse accepts
Escapes == {"\"", "\\", "/", "n", "u"}

\* the string a JSON string literal stands for, None when it is malformed
unescape(seg) ==
    LET start(p) == p >= 1 /\ seg[p] = "\\" /\ backslashes(seg, p) % 2 = 0
        escaped(p) == p > 1 /\ start(p - 1)
        hexAt(p) == IF p + 4 <= Len(seg) THEN SubSeq(seg, p + 1, p + 4) ELSE <<>>
        inHex(p) == \E q \in (p - 4)..(p - 1) : q >= 1 /\ escaped(q) /\ seg[q] = "u"
        ok(p) == escaped(p) =>
                    /\ seg[p] \in Escapes
                    /\ seg[p] = "u" => hexAt(p) \in {Astral.hiHex, Astral.loHex}
        unit(p) ==
            CASE inHex(p) -> <<>>
              [] start(p) -> <<>>
              [] escaped(p) /\ seg[p] = "n" -> <<"\n">>
              [] escaped(p) /\ seg[p] = "u" ->
                    <<IF hexAt(p) = Astral.hiHex THEN Astral.hi ELSE Astral.lo>>
              [] OTHER -> <<seg[p]>>
    IN  IF (\A p \in 1..Len(seg) : ok(p) /\ seg[p] # "\n") /\ ~start(Len(seg))
        THEN Some(flat([p \in 1..Len(seg) |-> unit(p)]))
        ELSE None

\* JSON.parse of an object whose values are strings: its members, None when
\* the text is not such an object (JSON.parse throws); q are the places of
\* the quotes that begin and end its strings
membersAt(t, q) ==
    LET n == Len(q) \div 4
        seg(j) == SubSeq(t, q[j] + 1, q[j + 1] - 1)
        shaped ==
            /\ Len(t) >= 2 /\ t[1] = "{" /\ t[Len(t)] = "}"
            /\ Len(q) > 0 /\ Len(q) % 4 = 0
            /\ q[1] = 2 /\ q[Len(q)] = Len(t) - 1
            /\ \A m \in 0..(n - 1) :
                  /\ t[q[4 * m + 2] + 1] = ":" /\ q[4 * m + 3] = q[4 * m + 2] + 2
                  /\ m < n - 1 => (t[q[4 * m + 4] + 1] = "," /\ q[4 * m + 5] = q[4 * m + 4] + 2)
    IN  IF shaped /\ \A m \in 0..(n - 1) : unescape(seg(4 * m + 1)) # None
                                            /\ unescape(seg(4 * m + 3)) # None
        THEN Some([m \in 1..n |-> [k |-> The(unescape(seg(4 * m - 3))),
                                   v |-> The(unescape(seg(4 * m - 1)))]] \o <<>>)
        ELSE None

jsonParse(text) ==
    The({The({membersAt(t, q) :
                 q \in {positions(t, LAMBDA i : t[i] = "\"" /\ backslashes(t, i) % 2 = 0)}}) :
            t \in {text}})

(***************************************************************************)
(* The chat client (chat-client.tsx): the component's state and one call of *)
(* send() at a time.  The client occupies slot 1 of req; the requests it    *)
(* sends run in the slots above.  An id made by crypto.randomUUID() is a    *)
(* number above every row id.                                               *)
(***************************************************************************)
\* the calls of send() a behaviour follows
MaxSends == 2

\* the chats a client holds at most
MaxChats == 3

\* the first id crypto.randomUUID() gives in the client
FirstUuid == 100

\* what the user types
ClientInputs == { <<"h","i">> }

\* String.prototype.trim
trim(s) ==
    IF \A i \in 1..Len(s) : s[i] = " " THEN <<>>
    ELSE LET first == CHOOSE i \in 1..Len(s) : s[i] # " " /\ \A j \in 1..(i - 1) : s[j] = " "
             last == CHOOSE i \in 1..Len(s) : s[i] # " " /\ \A j \in (i + 1)..Len(s) : s[j] = " "
         IN  SubSeq(s, first, last)

\* chat-client.tsx:133-139
generateChatTitle(message) ==
    LET cleanMessage == trim(message)
    IN  IF Len(cleanMessage) <= 30 THEN cleanMessage
        ELSE SubSeq(cleanMessage, 1, 30) \o <<".",".",".">>

\* the number a text of digits stands for
RECURSIVE idOf(_)
idOf(text) ==
    IF text = <<>> THEN 0
    ELSE 10 * idOf(SubSeq(text, 1, Len(text) - 1))
         + (CHOOSE d \in 0..9 : DigitChars[d + 1] = text[Len(text)])

\* the texts chat-client.tsx:294 and 310 show
ClientTexts ==
    [ErrorPrefix |-> <<"E","r","r","o","r",":"," ">>, Failed |-> <<"F","a","i","l","e","d"," ","t","o"," ","s","t","a","r","t"," ","c","h","a","t">>,
     NewChat |-> <<"N","e","w"," ","c","h","a","t">>, Undefined |-> <<"u","n","d","e","f","i","n","e","d">>]

\* the chats a page load hands to the component (initialChats): the user's
\* sessions with their messages
loadedChats(userId, rows) ==
    LET mine == {c \in chats : c.userId = userId}
        RECURSIVE listed(_)
        listed(S) ==
            IF S = {} THEN <<>>
            ELSE LET c == CHOOSE x \in S : \A y \in S : x.id <= y.id
                 IN  << [id |-> c.id, title |-> c.title,
                         messages |-> [k \in 1..Len(SelectSeq(rows, LAMBDA m : m.chatId = c.id)) |->
                                         LET m == SelectSeq(rows, LAMBDA x : x.chatId = c.id)[k]
                                         IN  [id |-> m.id, role |-> m.role, content |-> m.content,
                                              isStreaming |-> FALSE]]] >>
                     \o listed(S \ {c})
    IN  listed(mine)

initialChats(userId) == loadedChats(userId, messages)

\* chat-client.tsx:14-17: the component as mounted, with the locals of the
\* call of send() in progress; calls counts the calls of send() that went on
\* to the fetch, and cut records that a read of the call in progress ended
\* inside a line or inside a character
ChatClient(s, cs) ==
    [ep |-> "client", pc |-> "idle", session |-> s, chats |-> cs,
     active |-> IF cs = <<>> THEN None ELSE Some(cs[1].id),
     isStreaming |-> FALSE, uuid |-> FirstUuid, calls |-> 0,
     current |-> None, streamId |-> 0, prompt |-> <<>>, server |-> 0,
     taken |-> 0, held |-> <<>>, buffer |-> <<>>, assistantContent |-> <<>>,
     cut |-> FALSE]

\* chat-client.tsx:68: chats.find(c => c.id === active) || chats[0]
currentOf(cl) ==
    LET found == {k \in 1..Len(cl.chats) : Some(cl.chats[k].id) = cl.active}
    IN  IF found # {} THEN Some(cl.chats[CHOOSE k \in found : \A j \in found : k <= j].id)
        ELSE IF cl.chats # <<>> THEN Some(cl.chats[1].id)
        ELSE None

\* setChats(cs => cs.map(c => c.id === current?.id ? change(c) : c))
mapCurrent(cl, change(_)) ==
    [cl EXCEPT !.chats = [k \in 1..Len(@) |->
                            IF Some(@[k].id) = cl.current THEN change(@[k]) ELSE @[k]]]

\* ... messages: c.messages.map(m => m.id === streamId ? change(m) : m)
mapStream(cl, change(_)) ==
    LET inChat(c) == [c EXCEPT !.messages = [k \in 1..Len(@) |->
                                               IF @[k].id = cl.streamId THEN change(@[k]) ELSE @[k]]]
    IN  mapCurrent(cl, inChat)

ClientUnchanged ==
    UNCHANGED <<users, chats, messages, invoices, accounts, searches, nextId, env>>

isClient(c) == req[c].ep = "client"

\* the client stands between two calls of send(); what the user does while a
\* call is in progress touches nothing the call reads, and is done after it
between(c) == isClient(c) /\ req[c].pc = "idle" /\ Turn(c)

\* chat-client.tsx:316-330
newChat(c) ==
    /\ between(c) /\ Len(req[c].chats) < MaxChats
    /\ LET newChatData == [id |-> req[c].uuid, title |-> ClientTexts.NewChat, messages |-> <<>>]
       IN  req' = [req EXCEPT ![c] = [@ EXCEPT !.chats = <<newChatData>> \o @,
                                               !.active = Some(req[c].uuid),
                                               !.uuid = @ + 1]]
    /\ ClientUnchanged

\* the slot the next request of the client runs in
freeSlot == CHOOSE r \in Req : req[r] = Idle /\ \A q \in Req : q < r => req[q] # Idle

\* chat-client.tsx:214-248: send() up to its fetch: the messages shown at
\* once, and the request with the prompt and the id of the current chat
sending(client, input, server) ==
    LET localId == client.uuid
        streamId == client.uuid + 1
        userMessage == trim(input)
        cl == [client EXCEPT !.current = currentOf(client), !.streamId = streamId,
                             !.prompt = input, !.uuid = @ + 2, !.calls = @ + 1,
                             !.isStreaming = TRUE,
                             !.pc = "fetch", !.server = server,
                             !.taken = 0, !.held = <<>>, !.buffer = <<>>,
                             !.assistantContent = <<>>, !.cut = FALSE]
        shown(ch) ==
            [ch EXCEPT
               !.messages = @ \o << [id |-> localId, role |-> "user",
                                     content |-> userMessage, isStreaming |-> FALSE],
                                    [id |-> streamId, role |-> "assistant",
                                     content |-> <<>>, isStreaming |-> TRUE] >>,
               !.title = IF Len(ch.messages) = 0 THEN generateChatTitle(userMessage) ELSE @]
    IN  mapCurrent(cl, shown)

send(c) ==
    /\ between(c) /\ req[c].calls < MaxSends
    /\ \E r \in Req : req[r] = Idle
    /\ \E input \in ClientInputs :
          /\ ~(trim(input) = <<>> \/ req[c].isStreaming)
          /\ req' = [req EXCEPT ![c] = sending(@, input, freeSlot)]
    /\ ClientUnchanged

\* the request of a send() reaches the handler: auth() with the session of
\* the client, and the body of chat-client.tsx:243-246
sends(r) == {c \in Req : isClient(c) /\ req[c].pc = "fetch" /\ req[c].server = r}
SentChatAuth(r) ==
    /\ ChatAuth(r)
    /\ \E c \in sends(r) : req'[r].session = req[c].session
SentChatBody(r) ==
    /\ ChatBody(r)
    /\ \E c \in sends(r) : /\ req'[r].pc = "findUser"
                           /\ req'[r].prompt = req[c].prompt
                           /\ req'[r].chatId = req[c].current

\* chat-client.tsx:305-312: the catch of send()
catch(cl) ==
    LET failed(m) == [m EXCEPT !.content = ClientTexts.Failed]
    IN  [mapStream(cl, failed) EXCEPT !.isStreaming = FALSE, !.pc = "idle"]

\* chat-client.tsx:238: fetch rejects (the request does not arrive)
fetchFails(c) ==
    /\ isClient(c) /\ req[c].pc = "fetch" /\ req[req[c].server] = Idle
    /\ req' = [req EXCEPT ![c] = catch(@)]
    /\ ClientUnchanged

\* chat-client.tsx:238-257: fetch resolves with the status of the answer;
\* a status that is not ok is thrown
fetchResolves(c) ==
    /\ isClient(c) /\ req[c].pc = "fetch" /\ Turn(c)
    /\ req[req[c].server].ep = "chat" /\ req[req[c].server].status # 0
    /\ req' = [req EXCEPT ![c] = IF req[req[c].server].status = 200
                                 THEN [@ EXCEPT !.pc = "read"] ELSE catch(@)]
    /\ ClientUnchanged

\* chat-client.tsx:276, 282, 290: data.event of a parsed line (None for a
\* line that is no data line or whose JSON.parse throws)
eventOf(d) == IF d # None /\ hasKey(The(d), <<"e","v","e","n","t">>) THEN get(The(d), <<"e","v","e","n","t">>) ELSE <<>>

\* a member of a parsed line, undefined when it has none of the name
fieldOf(d, name) == IF hasKey(The(d), name) THEN get(The(d), name) ELSE ClientTexts.Undefined

\* chat-client.tsx:276-297: what the lines before line end do: chunks are
\* those of them that hold a chunk frame, and line end, when there is one,
\* holds the done or error frame at which send() returns
applied(cl, held, rest, data, end, chunks) ==
    LET typed(content) ==
            LET read == [cl EXCEPT !.held = held, !.buffer = rest, !.assistantContent = content,
                                   !.cut = @ \/ held # <<>> \/ rest # <<>>]
                show(m) == [m EXCEPT !.content = content, !.isStreaming = FALSE]
            IN  IF chunks = <<>> THEN read ELSE mapStream(read, show)
        done(m) == [m EXCEPT !.content = fieldOf(data[end], <<"f","u","l","l","T","e","x","t">>),
                             !.id = IF hasKey(The(data[end]), <<"m","e","s","s","a","g","e","I","d">>)
                                       /\ fieldOf(data[end], <<"m","e","s","s","a","g","e","I","d">>) # <<>>
                                    THEN idOf(fieldOf(data[end], <<"m","e","s","s","a","g","e","I","d">>)) ELSE @]
        error(m) == [m EXCEPT !.content = ClientTexts.ErrorPrefix \o fieldOf(data[end], <<"e","r","r","o","r">>)]
        returned(after) ==
            IF end > Len(data) THEN after
            ELSE IF eventOf(data[end]) = <<"d","o","n","e">>
            THEN [mapStream(after, done) EXCEPT !.isStreaming = FALSE, !.pc = "idle"]
            ELSE [mapStream(after, error) EXCEPT !.isStreaming = FALSE, !.pc = "idle"]
    IN  The({returned(after) :
                after \in {The({typed(content) :
                                   content \in {cl.assistantContent
                                                \o flat([k \in 1..Len(chunks) |->
                                                           fieldOf(data[chunks[k]], <<"c","o","n","t","e","n","t">>)])}})}})

\* chat-client.tsx:270-303: the complete lines of a read, each parsed once
\* into data, are taken in their order up to the first done or error frame
frames(cl, held, rest, data) ==
    LET ends == {j \in 1..Len(data) : eventOf(data[j]) \in {<<"d","o","n","e">>, <<"e","r","r","o","r">>}}
    IN  The({The({applied(cl, held, rest, data, end, chunks) :
                     chunks \in {SelectSeq([j \in 1..(end - 1) |-> j],
                                           LAMBDA j : eventOf(data[j]) = <<"c","h","u","n","k">>)}}) :
                end \in {IF ends = {} THEN Len(data) + 1
                         ELSE CHOOSE j \in ends : \A k \in ends : j <= k}})

\* chat-client.tsx:271-274: the lines before the last one
parsed(lines) ==
    [j \in 1..(Len(lines) - 1) |->
        IF startsWith(lines[j], <<"d","a","t","a",":"," ">>)
        THEN jsonParse(SubSeq(lines[j], 7, Len(lines[j]))) ELSE None] \o <<>>

\* consume with the incomplete line dropped at the end of the read
consumeDroppingRest(cl, value) ==
    The({The({The({The({frames(cl, held, <<>>, data) :
                           data \in {parsed(lines)}, held \in {kept(bytes)}}) :
                      lines \in {split(text)}}) :
                 text \in {cl.buffer \o decode(bytes)}}) :
            bytes \in {cl.held \o value}})

\* chat-client.tsx:267-303: one read: buffer += decoder.decode(value), the
\* complete lines are taken and the incomplete one is kept
consume(cl, value) ==
    The({The({The({The({frames(cl, held, lines[Len(lines)], data) :
                           data \in {parsed(lines)}, held \in {kept(bytes)}}) :
                      lines \in {split(text)}}) :
                 text \in {cl.buffer \o decode(bytes)}}) :
            bytes \in {cl.held \o value}})

\* the bytes of the answer that the client has not read
unread(c) ==
    The({SubSeq(w, req[c].taken + 1, Len(w)) : w \in {wire(req[req[c].server].frames)}})

\* chat-client.tsx:264-268: reader.read() resolves with the next n of the
\* bytes u that have arrived
read(c, u, n) ==
    /\ n >= 1 /\ n <= Len(u)
    /\ \E cl \in {[req[c] EXCEPT !.taken = @ + n]} :
          req' = [req EXCEPT ![c] = consume(cl, SubSeq(u, 1, n))]
    /\ ClientUnchanged

reads(c) == isClient(c) /\ req[c].pc = "read" /\ Turn(c)

\* a read of all the bytes that have arrived
readAll(c) == reads(c) /\ \E u \in {unread(c)} : read(c, u, Len(u))

\* a read of some of them: the transport cuts where it likes
readSome(c) == reads(c) /\ \E u \in {unread(c)} : \E n \in 1..Len(u) : read(c, u, n)

\* chat-client.tsx:264-265: reader.read() resolves with done: the bytes have
\* ended, at the close of the server or where the connection ended before
\* it; the loop is left
readEnds(c) ==
    /\ reads(c)
    /\ req' = [req EXCEPT ![c] = [@ EXCEPT !.pc = "idle"]]
    /\ ClientUnchanged

\* chat-client.tsx:264: reader.read() rejects
readFails(c) ==
    /\ reads(c)
    /\ req' = [req EXCEPT ![c] = catch(@)]
    /\ ClientUnchanged

\* the client of the demo user over the seeded database, with a slot for
\* each request it sends
InitClient ==
    /\ users = {SeedUser}
    /\ chats = SeedChats
    /\ messages = SeedMessages
    /\ invoices = <<>>
    /\ accounts = {}
    /\ searches = <<>>
    /\ req = [r \in 1..(1 + MaxSends) |->
                IF r = 1 THEN ChatClient([email |-> DemoEmail, id |-> Some(1)], initialChats(1))
                ELSE Idle]
    /\ nextId = 10
    /\ env = [logs |-> <<>>]

NextClient ==
    \E r \in 1..(1 + MaxSends) :
       \/ newChat(r) \/ send(r)
       \/ SentChatAuth(r) \/ SentChatBody(r) \/ ChatFindUser(r) \/ ChatFindSession(r)
       \/ ChatCreateSession(r) \/ ChatSaveUserMessage(r) \/ ChatCannedResponse(r)
       \/ ChatStreamStart(r) \/ ChatStreamChunk(r) \/ ChatStreamFinish(r)
       \/ fetchFails(r) \/ fetchResolves(r) \/ readAll(r) \/ readEnds(r) \/ readFails(r)

SpecClient == InitClient /\ [][NextClient]_vars

\* a send() of the client that has completed on the server: the request in
\* slot r has stored the user Message and the assistant Message
completed(r) ==
    /\ req[r].ep = "chat" /\ req[r].pc = "done"
    /\ Cardinality(createdBy(req[r], "message.create")) = 2

\* the request in slot r was sent from a chat that newChat() made
fromNewChat(r) == req[r].chatId # None /\ The(req[r].chatId) >= FirstUuid

\* C22: two completed send() calls from the same chat made by newChat() put
\* their Messages into one ChatSession, and exactly one ChatSession was
\* created for them
C22_SameChatSameSession ==
    \A r1 \in 1..(1 + MaxSends), r2 \in 1..(1 + MaxSends) :
       (/\ r1 < r2 /\ completed(r1) /\ completed(r2)
        /\ fromNewChat(r1) /\ req[r1].chatId = req[r2].chatId) =>
          /\ req[r1].chat = req[r2].chat
          /\ \A k \in 1..Len(messages) :
                messages[k].id \in createdBy(req[r1], "message.create")
                                   \cup createdBy(req[r2], "message.create") =>
                   messages[k].chatId = The(req[r1].chat)
          /\ Cardinality(createdBy(req[r1], "chatSession.create")
                         \cup createdBy(req[r2], "chatSession.create")) = 1

\* the steps that are taken when nothing fails outside the program: the
\* request arrives and the handler runs on, the answer arrives, and the bytes
\* that have arrived are read
clientProgress ==
    \E r \in 1..(1 + MaxSends) :
       \/ SentChatAuth(r) \/ SentChatBody(r) \/ ChatFindUser(r) \/ ChatFindSession(r)
       \/ ChatCreateSession(r) \/ ChatSaveUserMessage(r) \/ ChatCannedResponse(r)
       \/ ChatStreamStart(r) \/ ChatStreamChunk(r) \/ ChatStreamFinish(r)
       \/ fetchResolves(r) \/ readAll(r)

FairClient == SpecClient /\ WF_vars(clientProgress)

\* C28: in the chat client, isStreaming set to true by send() returns to
\* false, whether the stream gives a done frame or an error frame, the
\* request fails, or the stream ends without either frame
C28_StreamingEnds ==
    \A c \in 1..(1 + MaxSends) :
       (isClient(c) /\ req[c].isStreaming) ~> ~(isClient(c) /\ req[c].isStreaming)

(***************************************************************************)
(* The event stream under every split: one send() of the client whose       *)
(* answer is a short text, read in pieces of every size.                    *)
(***************************************************************************)
\* answers of the assistant cut to two units, with the units that
\* JSON.stringify escapes and those that take more than one byte
StreamTexts ==
    { <<"\"", "\\">>, <<"\n", "a">>, <<Astral.hi, Astral.lo>> }

\* a question about invoices, which the assistant answers in its own words;
\* the page was loaded before it was asked
StreamPrompt == <<"m","y"," ","i","n","v","o","i","c","e">>

\* the request of the send() below, with the user message stored, as
\* route.ts:556 leaves it
StreamRequest(text) ==
    [ChatRequest([email |-> DemoEmail, id |-> Some(1)])
        EXCEPT !.pc = "stream", !.prompt = StreamPrompt, !.user = Some(1),
               !.chatId = Some(3), !.chat = Some(3), !.response = text,
               !.log = <<Ev("write", "message.create", 9)>>]

InitStream ==
    /\ users = {SeedUser}
    /\ chats = SeedChats
    /\ messages = Append(SeedMessages, [id |-> 9, chatId |-> 3, role |-> "user",
                                        content |-> StreamPrompt])
    /\ invoices = <<>>
    /\ accounts = {}
    /\ searches = <<>>
    /\ \E text \in StreamTexts :
          req = <<sending(ChatClient([email |-> DemoEmail, id |-> Some(1)],
                                     loadedChats(1, SeedMessages)),
                          StreamPrompt, 2),
                  StreamRequest(text)>>
    /\ nextId = 10
    /\ env = [logs |-> <<>>]

NextStream ==
    \E r \in 1..2 :
       \/ ChatStreamStart(r) \/ ChatStreamChunk(r) \/ ChatStreamFinish(r)
       \/ fetchResolves(r) \/ readSome(r)

SpecStream == InitStream /\ [][NextStream]_vars

\* the frames of the answer whose line the client has taken whole (of the
\* two line feeds that end a frame, the first ends its line)
taken(c) ==
    LET all == req[req[c].server].frames
        whole == {j \in 1..Len(all) : Len(wire(SubSeq(all, 1, j))) - 1 <= req[c].taken}
    IN  [j \in 1..Cardinality(whole) |-> all[j]]

\* the message that shows the answer of the send() in progress
shownAnswer(c) ==
    LET ch == CHOOSE ch \in {req[c].chats[k] : k \in 1..Len(req[c].chats)} :
                 Some(ch.id) = req[c].current
    IN  CHOOSE m \in {ch.messages[k] : k \in 1..Len(ch.messages)} :
           m.id = req[c].streamId \/ m.id = req[c].server

\* C30: however the bytes of the answer are split into reads, the client has
\* applied just the chunk frames it has taken whole, in their order, and
\* when it has taken the done frame it shows the full text of the server
C30_SplitsReconstructed ==
    \A c \in 1..2 :
       (isClient(c) /\ req[c].pc # "fetch") =>
          LET whole == taken(c)
              typed == SelectSeq(whole, LAMBDA f : f.event = "chunk")
              ended == SelectSeq(whole, LAMBDA f : f.event \in {"done", "error"})
              server == req[req[c].server]
          IN  /\ req[c].assistantContent = [k \in 1..Len(typed) |-> typed[k].content]
              /\ req[c].assistantContent = SubSeq(server.response, 1, Len(typed))
              /\ (req[c].pc = "read") = (ended = <<>>)
              /\ (req[c].pc = "read" /\ typed # <<>>) =>
                    shownAnswer(c).content = req[c].assistantContent
              /\ (ended # <<>> /\ ended[1].event = "done") =>
                    /\ shownAnswer(c).content = server.response
                    /\ server.fullText = server.response
                    /\ shownAnswer(c).id = ended[1].messageId
                    /\ ~req[c].isStreaming

\* the answer with the character of two units is shown in full after reads
\* that ended inside a line or inside a character
C30_CutAndShown ==
    \E c \in 1..2 :
       /\ isClient(c) /\ req[c].pc = "idle" /\ req[c].cut /\ ~req[c].isStreaming
       /\ req[req[c].server].response = <<Astral.hi, Astral.lo>>
       /\ shownAnswer(c).content = <<Astral.hi, Astral.lo>>

(***************************************************************************)
(* Concurrent uploads: the demo user sends files to POST /api/upload from   *)
(* MaxRacers requests at once, over an empty log folder.                    *)
(***************************************************************************)
\* an upload with a file, by the signed-in demo user
RacingUploadAuth(r) ==
    /\ UploadAuth(r)
    /\ req'[r].ep = "upload" /\ req'[r].pc = "findUser"
    /\ req'[r].session.email = DemoEmail /\ req'[r].file # None

InitUploads ==
    /\ users = {SeedUser}
    /\ chats = SeedChats
    /\ messages = SeedMessages
    /\ invoices = <<SeedInvoice>>
    /\ accounts = {}
    /\ searches = <<>>
    /\ req = [r \in 1..MaxRacers |-> Idle]
    /\ nextId = 10
    /\ env = [logs |-> <<>>]

NextUploads ==
    \E r \in 1..MaxRacers :
        \/ RacingUploadAuth(r) \/ UploadFindUser(r) \/ UploadCreateInvoice(r)
        \/ UploadParse(r) \/ UploadReadReply(r) \/ UploadEmbed(r) \/ UploadUpdate(r)
        \/ UploadUpdateJson(r) \/ UploadFetchUpdated(r) \/ UploadFailed(r)

SpecUploads == InitUploads /\ [][NextUploads]_vars

\* the files that the parsing service left in the log folder for the file
\* of the upload in slot r
ownLogs(r) == SelectSeq(env.logs, LAMBDA f : f.by = The(req[r].invoice))

\* the upload in slot r has stored the data it took from the log folder,
\* and its row is as it stored it
storedFromLogs(r) ==
    /\ req[r].ep = "upload" /\ req[r].reply # None /\ The(req[r].reply).type = "spreadsheet"
    /\ \E k \in writesOf(req[r], "invoice.update") : req[r].log[k].val = "processed"
    /\ invoiceById(The(req[r].invoice)).status = "processed"

\* C23: the extracted fields an upload stores on its Invoice are the ones the
\* parsing service produced for the file of that upload (the fallback when
\* it left none), under any interleaving of uploads
C23_OwnExtractedData ==
    \A r \in 1..MaxRacers :
       storedFromLogs(r) =>
          invoiceById(The(req[r].invoice)).extractedData =
             IF ownLogs(r) = <<>> THEN ProcessedData(UploadTexts.Complete)
             ELSE ProcessedData(totalAmountDue(ownLogs(r)[1].payment))

(***************************************************************************)
(* Downloads: the demo user owns two processed invoices, and the export     *)
(* folder holds the spreadsheet the parsing service made last; MaxRacers    *)
(* requests to GET /api/invoices/:id/download.                              *)
(***************************************************************************)
InitDownloads ==
    /\ users = {SeedUser}
    /\ chats = SeedChats
    /\ messages = SeedMessages
    /\ invoices = <<SeedInvoice,
                    InvoiceRow(4, 1, <<"b",".","p","d","f">>, "processed", SampleData, None)>>
    /\ accounts = {}
    /\ searches = <<>>
    /\ req = [r \in 1..MaxRacers |-> Idle]
    /\ nextId = 10
    /\ env = Disk(<< <<"a",".","p","d","f">>, <<"b",".","p","d","f">> >>, Some([size |-> 20000]))

NextDownloads ==
    \E r \in 1..MaxRacers :
        \/ DownloadAuth(r) \/ InvoicesFindUser(r) \/ DownloadFindInvoice(r) \/ DownloadCount(r)

SpecDownloads == InitDownloads /\ [][NextDownloads]_vars

\* the request in slot r was answered with the processed report of an invoice
gotReport(r) ==
    /\ req[r].ep = "download" /\ req[r].pc = "done" /\ req[r].status = 200
    /\ req[r].type = Some("processed")

\* C24: the body of a processed download is the report of the requested
\* invoice, which the requester owns: two requests that are answered with the
\* same report asked for the same invoice
C24_ReportOfRequestedInvoice ==
    \A r1 \in 1..MaxRacers, r2 \in 1..MaxRacers :
       (gotReport(r1) /\ gotReport(r2)) =>
          /\ \E i \in 1..Len(invoices) : /\ invoices[i].id = The(req[r1].id)
                                         /\ Some(invoices[i].userId) = req[r1].session.id
          /\ req[r1].body = req[r2].body => req[r1].id = req[r2].id

(***************************************************************************)
(* Demo seeding: MaxRacers requests to POST /api/chats/demo over a database *)
(* that holds the demo user without sessions.                               *)
(***************************************************************************)
InitDemo ==
    /\ users = {SeedUser}
    /\ chats = {}
    /\ messages = <<>>
    /\ invoices = <<>>
    /\ accounts = {}
    /\ searches = <<>>
    /\ req = [r \in 1..MaxRacers |-> Idle]
    /\ nextId = 10
    /\ env = [logs |-> <<>>]

NextDemo ==
    \E r \in 1..MaxRacers :
        \/ DemoAuth(r) \/ ChatsFindUser(r) \/ ChatsFind(r) \/ DemoCreateChat(r)

SpecDemo == InitDemo /\ [][NextDemo]_vars

\* the sessions of the demo user with the k-th seeded title
seeded(k) == {c \in chats : c.userId = SeedUser.id /\ c.title = DemoChats[k].title}

\* C25: whatever POST /api/chats/demo requests were made, the demo user owns
\* at most the three seeded sessions, each once; a request of another user
\* is answered 403 and creates nothing
C25_SeededOnce ==
    /\ \A k \in 1..Len(DemoChats) : Cardinality(seeded(k)) <= 1
    /\ \A c \in chats : c.userId = SeedUser.id => \E k \in 1..Len(DemoChats) : c \in seeded(k)
    /\ \A r \in 1..MaxRacers :
          (req[r].ep = "demo" /\ req[r].session.email \notin {Null, DemoEmail}) =>
             req[r].pc = "done" /\ req[r].status = 403 /\ req[r].log = <<>>

(***************************************************************************)
(* DELETE beside a running stream: a POST /api/chat request for session 3   *)
(* has stored its user message and is about to stream its answer, while     *)
(* DELETE /api/chats/:id requests arrive.                                   *)
(***************************************************************************)
\* the Message table when the stream of session 3 begins
RaceMessages ==
    Append(SeedMessages, [id |-> 9, chatId |-> 3, role |-> "user", content |-> StreamPrompt])

InitDeletes ==
    /\ users = {SeedUser}
    /\ chats = SeedChats
    /\ messages = RaceMessages
    /\ invoices = <<>>
    /\ accounts = {}
    /\ searches = <<>>
    /\ req = <<StreamRequest(<<"O","K">>)>> \o [r \in 1..MaxRacers |-> Idle]
    /\ nextId = 10
    /\ env = [logs |-> <<>>]

NextDeletes ==
    \E r \in 1..(1 + MaxRacers) :
        \/ ChatStreamStart(r) \/ ChatStreamChunk(r) \/ ChatStreamFinish(r)
        \/ DeleteAuth(r) \/ DeleteFindUser(r) \/ DeleteFindSession(r)
        \/ DeleteMessages(r) \/ DeleteSession(r)

SpecDeletes == InitDeletes /\ [][NextDeletes]_vars

\* the rows of Message that reference session id
messagesOf(id) == SelectSeq(messages, LAMBDA m : m.chatId = id)

\* DELETE request r has answered
deleted(r) == req[r].ep = "delete" /\ req[r].pc = "done"

\* the only DELETE request for its session
alone(r) == \A q \in 1..(1 + MaxRacers) : (q # r /\ req[q].ep = "delete") => req[q].chatId # req[r].chatId

\* C26: when DELETE /api/chats/:id has answered success, no message
\* references the session from then on; when it has answered a failure, the
\* session is there and every message it had is still stored, also when a
\* stream for the session stores its assistant message meanwhile
C26_DeleteAllOrNothing ==
    \A r \in 1..(1 + MaxRacers) : deleted(r) =>
        IF req[r].status = 200
        THEN /\ ~\E c \in chats : c.id = req[r].chatId
             /\ messagesOf(req[r].chatId) = <<>>
        ELSE alone(r) =>
             /\ \E c \in chats : c.id = req[r].chatId
             /\ \A i \in 1..Len(RaceMessages) :
                   RaceMessages[i].chatId = req[r].chatId =>
                      \E j \in 1..Len(messages) : messages[j] = RaceMessages[i]

\* the values of Invoice.status
Statuses == {"processing", "processed", "error"}

\* C27: every invoice's status is processing, processed or error; a row is
\* created as processing, and a step changes a status only from processing,
\* to processed or to error
C27_StatusMovesOnce ==
    [][/\ Len(invoices') >= Len(invoices)
       /\ \A i \in 1..Len(invoices') :
             /\ invoices'[i].status \in Statuses
             /\ IF i > Len(invoices) THEN invoices'[i].status = "processing"
                ELSE /\ invoices'[i].id = invoices[i].id
                     /\ invoices'[i].status # invoices[i].status =>
                           /\ invoices[i].status = "processing"
                           /\ invoices'[i].status \in {"processed", "error"}]_vars

====
